---- MODULE Spec2Model ----
(***************************************************************************)
(* A model of the Stepstone job-search server (kdkiss/mcp-stepstone).      *)
(*                                                                         *)
(* Part 1: the session store, src/session_manager.py, and the expiry test  *)
(* of src/job_details_models.py.                                           *)
(* Part 2: the fetch client and the search over several terms,             *)
(* StepstoneJobScraper in src/stepstone_server.py, and the detail page     *)
(* fetch of src/job_detail_parser.py.                                      *)
(* Part 3: the two tools of handle_call_tool in src/stepstone_server.py,   *)
(* the store called from threads, and the extraction of a listing page.    *)
(*                                                                         *)
(* Time: datetime.now() is a clock in ticks, TicksPerSec ticks to the      *)
(* second; the clock only moves forward, and only between two calls of    *)
(* the store (one call of a store method reads one clock value).           *)
(* Text that is searched (title, company, query) is a sequence of          *)
(* one-character strings; text that is only displayed is a string.         *)
(***************************************************************************)
EXTENDS Integers, Sequences, FiniteSets, TLC

VARIABLES
    sessions,   \* SessionManager.sessions: the dict, in insertion order
    now,        \* the clock datetime.now() reads, in ticks
    issued,     \* the create_session calls so far: issued[id] is the call that
                \* returned id, with its arguments and the clock value it read
    last,       \* the last call of the store: its arguments and what it returned
    call,       \* the get_job_details request handle_call_tool is working on
    scraper,    \* the StepstoneJobScraper object, once constructed
    parser,     \* the JobDetailParser object, once constructed
    http,       \* the requests sent so far (requests.get / Session.get), in order
    sleep_calls,\* the time.sleep calls so far, in order
    fetch,      \* the fetch_job_listings calls: fetch[0] is a direct call,
                \* fetch[w] the call of worker w of search_jobs
    search,     \* the search_jobs call
    page,       \* the parse_job_details call
    tool,       \* the search_jobs request handle_call_tool is working on
    threads,    \* the callers of the store that run as threads: what each
                \* is calling and where in the method it is
    listing,    \* a listing page and what lines 123-207 extract from it
    stdio       \* the stdio transport of the server: its input, its reader
                \* and writer tasks, the framing mode and what was written

storeVars == <<sessions, now, issued, last, call>>
fetchVars == <<scraper, parser, http, sleep_calls, fetch, search, page>>
toolVars == <<tool, threads, listing, stdio>>
vars == <<sessions, now, issued, last, call,
          scraper, parser, http, sleep_calls, fetch, search, page,
          tool, threads, listing, stdio>>

----------------------------------------------------------------------------
(* Bounds of the model.                                                    *)

\* Clock ticks per second (datetime has microseconds; 2 suffices to tell
\* whole seconds from fractions).
TicksPerSec == 2

\* SessionManager(session_timeout), in seconds (the default is 3600).
session_timeout == 1

\* The number of create_session calls in one run.
MaxCreates == 2

\* The runs of find_job_in_session alone: the longest title, company and
\* query, in characters, and the longest result list.
MaxTitleLen == 2
MaxCompanyLen == 1
MaxQueryLen == 3
MaxResults == 2

\* The last clock value of a run: two ticks past the last tick at which a
\* session created at 0 is live.
MaxTime == session_timeout * TicksPerSec + 2

----------------------------------------------------------------------------
(* Text.                                                                   *)

\* str.lower() on the alphabet of the model.
LowerChar(c) ==
    CASE c = "A" -> "a"
      [] c = "B" -> "b"
      [] c = "C" -> "c"
      [] c = "L" -> "l"
      [] OTHER -> c

Lower(s) == [i \in 1..Len(s) |-> LowerChar(s[i])]

\* The characters str.strip() removes and str.split() splits at.
IsSpace(c) == c \in {" ", "LF", "CR"}

RECURSIVE LStrip(_)
LStrip(s) ==
    IF s # <<>> /\ IsSpace(Head(s)) THEN LStrip(Tail(s)) ELSE s

RECURSIVE RStrip(_)
RStrip(s) ==
    IF s # <<>> /\ IsSpace(s[Len(s)]) THEN RStrip(SubSeq(s, 1, Len(s) - 1)) ELSE s

\* str.strip()
Strip(s) == RStrip(LStrip(s))

\* The first word of s (s starts with no space): up to the first space.
RECURSIVE FirstWord(_)
FirstWord(s) ==
    IF s = <<>> \/ IsSpace(Head(s)) THEN <<>> ELSE <<Head(s)>> \o FirstWord(Tail(s))

\* str.split(): the words between runs of whitespace, none of them empty.
RECURSIVE Split(_)
Split(s) ==
    LET t == LStrip(s)
        w == FirstWord(t)
    IN  IF t = <<>> THEN <<>>
        ELSE <<w>> \o Split(SubSeq(t, Len(w) + 1, Len(t)))

\* needle in hay, for str
Contains(hay, needle) ==
    \E i \in 0..(Len(hay) - Len(needle)) :
        SubSeq(hay, i + 1, i + Len(needle)) = needle

\* x in xs, for a list
InList(x, xs) == \E i \in 1..Len(xs) : xs[i] = x

----------------------------------------------------------------------------
(* Job entries of a result list: a dict with optional title, company and   *)
(* link, or something that is no dict.  A field is a string, None, another *)
(* type (an int), or missing from the dict.                                *)

Str(s) == [kind |-> "str", s |-> s]
NonStr(k) == [kind |-> k, s |-> <<>>]
NoneVal == NonStr("none")
Missing == NonStr("missing")

Job(title, company, link) ==
    [isdict |-> TRUE, title |-> title, company |-> company, link |-> link]

\* An entry such as the string "not a dict".
NotADict == [isdict |-> FALSE, title |-> Missing, company |-> Missing, link |-> 0]

\* dict.get(key): None for a missing key.
Get(job, key) == IF job[key].kind = "missing" THEN NoneVal ELSE job[key]

\* isinstance(v, str)
IsStr(v) == v.kind = "str"

----------------------------------------------------------------------------
(* SearchSession and the expiry test.                                      *)

SearchSession(session_id, search_terms, zip_code, radius, results, timestamp) ==
    [session_id |-> session_id, search_terms |-> search_terms,
     zip_code |-> zip_code, radius |-> radius,
     results |-> results, timestamp |-> timestamp]

\* What a lookup returns for `None`.
NoSession == SearchSession(0, <<>>, "", 0, <<>>, 0)
NoJob == [isdict |-> FALSE, title |-> Missing, company |-> Missing, link |-> 0 - 1]

\* An optional argument: given, or None / left out.
Some(v) == [some |-> TRUE, v |-> v]
None == [some |-> FALSE, v |-> <<>>]

\* SearchSession.is_expired at clock value t:
\*   (datetime.now() - self.timestamp).total_seconds() > timeout_seconds
is_expired_ge(session, t, timeout_seconds) ==
    (t - session.timestamp) >= timeout_seconds * TicksPerSec

is_expired(session, t, timeout_seconds) ==
    (t - session.timestamp) > timeout_seconds * TicksPerSec

----------------------------------------------------------------------------
(* The dict self.sessions, in insertion order.                             *)

HasKey(store, session_id) ==
    \E i \in 1..Len(store) : store[i].session_id = session_id

Lookup(store, session_id) ==
    store[CHOOSE i \in 1..Len(store) : store[i].session_id = session_id]

\* del self.sessions[session_id]
Del(store, session_id) ==
    SelectSeq(store, LAMBDA s : s.session_id # session_id)

\* self.sessions[session_id] = session: a new key goes last, an old key
\* keeps its place.
Put(store, session) ==
    IF HasKey(store, session.session_id)
    THEN [i \in 1..Len(store) |->
            IF store[i].session_id = session.session_id THEN session ELSE store[i]]
    ELSE Append(store, session)

Keys(store) == [i \in 1..Len(store) |-> store[i].session_id]

----------------------------------------------------------------------------
(* SessionManager: each method as a function of the store and the clock    *)
(* value it reads, giving the store it leaves and what it returns.         *)

\* _cleanup_expired_sessions, a mutant: it deletes nothing.
_cleanup_expired_sessions_none(store, t) == store

\* _cleanup_expired_sessions
_cleanup_expired_sessions(store, t) ==
    SelectSeq(store, LAMBDA s : ~is_expired(s, t, session_timeout))

\* create_session, a mutant: search terms left out become the tool's
\* default terms instead of the empty list.
create_session_default_terms(store, t, session_id, results, search_terms, zip_code, radius) ==
    LET session == SearchSession(session_id,
                                 IF search_terms.some THEN search_terms.v
                                 ELSE <<"fraud", "betrug", "compliance">>,
                                 zip_code, radius, results, t)
    IN  [sessions |-> _cleanup_expired_sessions(Put(store, session), t),
         ret |-> session_id]

\* create_session; session_id is the value of str(uuid.uuid4()).
create_session(store, t, session_id, results, search_terms, zip_code, radius) ==
    LET session == SearchSession(session_id,
                                 IF search_terms.some THEN search_terms.v ELSE <<>>,
                                 zip_code, radius, results, t)
    IN  [sessions |-> _cleanup_expired_sessions(Put(store, session), t),
         ret |-> session_id]

\* get_session, a mutant: it returns an expired session it finds.
get_session_no_expiry(store, t, session_id) ==
    IF ~HasKey(store, session_id)
    THEN [sessions |-> store, found |-> FALSE, session |-> NoSession]
    ELSE [sessions |-> store, found |-> TRUE, session |-> Lookup(store, session_id)]

\* get_session, a mutant: on an expired session it cleans the whole store.
get_session_cleanup_all(store, t, session_id) ==
    IF ~HasKey(store, session_id)
    THEN [sessions |-> store, found |-> FALSE, session |-> NoSession]
    ELSE LET session == Lookup(store, session_id)
         IN  IF is_expired(session, t, session_timeout)
             THEN [sessions |-> _cleanup_expired_sessions(store, t),
                   found |-> FALSE, session |-> NoSession]
             ELSE [sessions |-> store, found |-> TRUE, session |-> session]

\* get_session
get_session(store, t, session_id) ==
    IF ~HasKey(store, session_id)
    THEN [sessions |-> store, found |-> FALSE, session |-> NoSession]
    ELSE LET session == Lookup(store, session_id)
         IN  IF is_expired(session, t, session_timeout)
             THEN [sessions |-> Del(store, session_id),
                   found |-> FALSE, session |-> NoSession]
             ELSE [sessions |-> store, found |-> TRUE, session |-> session]

----------------------------------------------------------------------------
(* find_job_in_session: three passes over the results.  What a pass does   *)
(* with one entry is "skip" (malformed, a warning is logged), "match"      *)
(* (return it), "nomatch" (go on), or "raise" (an exception leaves the     *)
(* method; no pass of the code does, a pass without its isinstance tests   *)
(* would).                                                                 *)

\* The first pass, a mutant: without the two isinstance tests, where
\* job.get and title.lower() raise AttributeError.
TitlePass_unguarded(job, query_lower) ==
    IF ~job.isdict THEN "raise"
    ELSE LET title == Get(job, "title")
         IN  IF ~IsStr(title) THEN "raise"
             ELSE IF Contains(Lower(title.s), query_lower) THEN "match"
             ELSE "nomatch"

\* The first pass (lines 94-105): the query is in the title.
TitlePass(job, query_lower) ==
    IF ~job.isdict THEN "skip"
    ELSE LET title == Get(job, "title")
         IN  IF ~IsStr(title) THEN "skip"
             ELSE IF Contains(Lower(title.s), query_lower) THEN "match"
             ELSE "nomatch"

\* The second pass (lines 108-119): the query is in the company.
CompanyPass(job, query_lower) ==
    IF ~job.isdict THEN "skip"
    ELSE LET company == Get(job, "company")
         IN  IF ~IsStr(company) THEN "skip"
             ELSE IF Contains(Lower(company.s), query_lower) THEN "match"
             ELSE "nomatch"

\* The third pass (lines 122-135): a word of the query is a word of the title.
WordPass(job, query_lower) ==
    IF ~job.isdict THEN "skip"
    ELSE LET title == Get(job, "title")
         IN  IF ~IsStr(title) THEN "skip"
             ELSE LET query_words == Split(query_lower)
                      title_words == Split(Lower(title.s))
                  IN  IF \E k \in 1..Len(query_words) : InList(query_words[k], title_words)
                      THEN "match"
                      ELSE "nomatch"

\* Where a pass ends: the first entry it returns or raises at, 0 when it
\* runs to the end of the list.
FirstHit(outcomes) ==
    IF \E i \in 1..Len(outcomes) : outcomes[i] \in {"match", "raise"}
    THEN CHOOSE i \in 1..Len(outcomes) :
            /\ outcomes[i] \in {"match", "raise"}
            /\ \A j \in 1..(i - 1) : outcomes[j] \notin {"match", "raise"}
    ELSE 0

\* The passes, a mutant: one pass that takes the first entry matching by
\* title or by company.
FindInResults_one_pass(results, job_query) ==
    LET query_lower == Strip(Lower(job_query))
        o == [i \in 1..Len(results) |->
                IF "match" \in {TitlePass(results[i], query_lower),
                                CompanyPass(results[i], query_lower)}
                THEN "match" ELSE "nomatch"]
        o3 == [i \in 1..Len(results) |-> WordPass(results[i], query_lower)]
        h == FirstHit(o)
        h3 == FirstHit(o3)
    IN  IF h # 0 THEN [found |-> TRUE, raised |-> FALSE, job |-> results[h]]
        ELSE IF h3 # 0 THEN [found |-> TRUE, raised |-> FALSE, job |-> results[h3]]
        ELSE [found |-> FALSE, raised |-> FALSE, job |-> NoJob]

\* The passes with the query as it is given, not trimmed.
FindInResults_untrimmed(results, job_query) ==
    LET query_lower == Lower(job_query)
        o1 == [i \in 1..Len(results) |-> TitlePass(results[i], query_lower)]
        o2 == [i \in 1..Len(results) |-> CompanyPass(results[i], query_lower)]
        o3 == [i \in 1..Len(results) |-> WordPass(results[i], query_lower)]
        h1 == FirstHit(o1)
        h2 == FirstHit(o2)
        h3 == FirstHit(o3)
        Hit(o, h) == [found |-> o[h] = "match", raised |-> o[h] = "raise",
                      job |-> IF o[h] = "match" THEN results[h] ELSE NoJob]
    IN  IF h1 # 0 THEN Hit(o1, h1)
        ELSE IF h2 # 0 THEN Hit(o2, h2)
        ELSE IF h3 # 0 THEN Hit(o3, h3)
        ELSE [found |-> FALSE, raised |-> FALSE, job |-> NoJob]

\* The three passes of find_job_in_session over the results of a session, in
\* order (lines 91-137).
FindInResults(results, job_query) ==
    LET query_lower == Strip(Lower(job_query))
        o1 == [i \in 1..Len(results) |-> TitlePass(results[i], query_lower)]
        o2 == [i \in 1..Len(results) |-> CompanyPass(results[i], query_lower)]
        o3 == [i \in 1..Len(results) |-> WordPass(results[i], query_lower)]
        h1 == FirstHit(o1)
        h2 == FirstHit(o2)
        h3 == FirstHit(o3)
        Hit(o, h) == [found |-> o[h] = "match", raised |-> o[h] = "raise",
                      job |-> IF o[h] = "match" THEN results[h] ELSE NoJob]
    IN  IF h1 # 0 THEN Hit(o1, h1)
        ELSE IF h2 # 0 THEN Hit(o2, h2)
        ELSE IF h3 # 0 THEN Hit(o3, h3)
        ELSE [found |-> FALSE, raised |-> FALSE, job |-> NoJob]

\* find_job_in_session
find_job_in_session(store, t, session_id, job_query) ==
    LET g == get_session(store, t, session_id)
        f == FindInResults(g.session.results, job_query)
    IN  IF ~g.found
        THEN [sessions |-> g.sessions, found |-> FALSE, raised |-> FALSE, job |-> NoJob]
        ELSE [sessions |-> g.sessions, found |-> f.found, raised |-> f.raised,
              job |-> f.job]

\* get_job_by_index, a mutant: without the test for an index below 1, where
\* a negative list index counts from the end of the list.
get_job_by_index_from_end(store, t, session_id, job_index) ==
    LET g == get_session(store, t, session_id)
        zero_based_index == job_index - 1
        n == Len(g.session.results)
    IN  IF ~g.found
        THEN [sessions |-> g.sessions, found |-> FALSE, job |-> NoJob]
        ELSE IF zero_based_index >= n \/ zero_based_index < 0 - n
        THEN [sessions |-> g.sessions, found |-> FALSE, job |-> NoJob]
        ELSE [sessions |-> g.sessions, found |-> TRUE,
              job |-> g.session.results[IF zero_based_index < 0
                                        THEN n + zero_based_index + 1
                                        ELSE zero_based_index + 1]]

\* get_job_by_index
get_job_by_index(store, t, session_id, job_index) ==
    LET g == get_session(store, t, session_id)
        zero_based_index == job_index - 1
    IN  IF ~g.found
        THEN [sessions |-> g.sessions, found |-> FALSE, job |-> NoJob]
        ELSE IF zero_based_index < 0 \/ zero_based_index >= Len(g.session.results)
        THEN [sessions |-> g.sessions, found |-> FALSE, job |-> NoJob]
        ELSE [sessions |-> g.sessions, found |-> TRUE,
              job |-> g.session.results[zero_based_index + 1]]

\* max, a mutant: the first session of the dict.
MaxByTimestamp_first(store) == store[1]

\* max(values, key=lambda s: s.timestamp): the first of the sessions with
\* the greatest timestamp, in the order of the dict.
MaxByTimestamp(store) ==
    store[CHOOSE i \in 1..Len(store) :
            /\ \A j \in 1..Len(store) : store[j].timestamp <= store[i].timestamp
            /\ \A j \in 1..(i - 1) : store[j].timestamp < store[i].timestamp]

\* get_recent_session
get_recent_session(store, t) ==
    LET cleaned == _cleanup_expired_sessions(store, t)
    IN  IF cleaned = <<>>
        THEN [sessions |-> cleaned, found |-> FALSE, session |-> NoSession]
        ELSE [sessions |-> cleaned, found |-> TRUE, session |-> MaxByTimestamp(cleaned)]

\* ', '.join(terms)
RECURSIVE Join(_)
Join(terms) ==
    IF terms = <<>> THEN ""
    ELSE IF Len(terms) = 1 THEN terms[1]
    ELSE terms[1] \o ", " \o Join(Tail(terms))

\* str(n) for an int n >= 0
Digit(d) ==
    CASE d = 0 -> "0" [] d = 1 -> "1" [] d = 2 -> "2" [] d = 3 -> "3" [] d = 4 -> "4"
      [] d = 5 -> "5" [] d = 6 -> "6" [] d = 7 -> "7" [] d = 8 -> "8" [] d = 9 -> "9"

RECURSIVE IntToStr(_)
IntToStr(n) ==
    IF n < 10 THEN Digit(n) ELSE IntToStr(n \div 10) \o Digit(n % 10)

\* ', '.join(session.search_terms) if session.search_terms else "None"
SearchTermsText(session) ==
    IF session.search_terms # <<>> THEN Join(session.search_terms) ELSE "None"

\* f"{session.zip_code} (+-{session.radius}km)", +- standing for the
\* plus-minus sign.
LocationText(session) ==
    session.zip_code \o " (+-" \o IntToStr(session.radius) \o "km)"

NoSummary ==
    [session_id |-> 0, search_terms |-> "", location |-> "", results |-> 0,
     search_time |-> 0]

\* get_session_summary; the summary's lines as fields.
get_session_summary(store, t, session_id) ==
    LET g == get_session(store, t, session_id)
    IN  IF ~g.found
        THEN [sessions |-> g.sessions, found |-> FALSE, summary |-> NoSummary]
        ELSE [sessions |-> g.sessions, found |-> TRUE,
              summary |-> [session_id |-> session_id,
                           search_terms |-> SearchTermsText(g.session),
                           location |-> LocationText(g.session),
                           results |-> Len(g.session.results),
                           search_time |-> g.session.timestamp]]

\* list_active_sessions
list_active_sessions(store, t) ==
    LET cleaned == _cleanup_expired_sessions(store, t)
    IN  [sessions |-> cleaned, ret |-> Keys(cleaned)]

\* sorted, a mutant: without reverse=True.
SortedNewestFirst_ascending(store) ==
    LET Before(i, j) ==
            \/ store[i].timestamp < store[j].timestamp
            \/ store[i].timestamp = store[j].timestamp /\ i < j
        Rank(i) == Cardinality({j \in 1..Len(store) : Before(j, i)}) + 1
    IN  [k \in 1..Len(store) |-> store[CHOOSE i \in 1..Len(store) : Rank(i) = k]]

\* sorted(values, key=lambda s: s.timestamp, reverse=True): stable, so
\* sessions of one timestamp keep the order of the dict.
SortedNewestFirst(store) ==
    LET Before(i, j) ==
            \/ store[i].timestamp > store[j].timestamp
            \/ store[i].timestamp = store[j].timestamp /\ i < j
        Rank(i) == Cardinality({j \in 1..Len(store) : Before(j, i)}) + 1
    IN  [k \in 1..Len(store) |-> store[CHOOSE i \in 1..Len(store) : Rank(i) = k]]

\* int(x) of the quotient a / b, b > 0: towards zero.
TruncDiv(a, b) == IF a >= 0 THEN a \div b ELSE 0 - ((0 - a) \div b)

Max(a, b) == IF a >= b THEN a ELSE b

\* One entry of the overview (lines 226-241); current_time is read once.
OverviewEntry(session, current_time) ==
    [session_id |-> session.session_id,
     search_terms |-> SearchTermsText(session),
     location |-> LocationText(session),
     result_count |-> Len(session.results),
     age_seconds |-> Max(0, TruncDiv(current_time - session.timestamp, TicksPerSec))]

\* get_active_session_overview
get_active_session_overview(store, t) ==
    LET cleaned == _cleanup_expired_sessions(store, t)
        sorted == SortedNewestFirst(cleaned)
    IN  [sessions |-> cleaned,
         ret |-> IF cleaned = <<>> THEN <<>>
                 ELSE [k \in 1..Len(sorted) |-> OverviewEntry(sorted[k], t)]]

----------------------------------------------------------------------------
(* The calls of the store.  `last` records each call as it returns.        *)

NoGiven == [results |-> <<>>, search_terms |-> None, zip_code |-> "", radius |-> 0]

\* A call record with nothing in it.
Obs(op) ==
    [op |-> op, t |-> 0, sid |-> 0, idx |-> 0, query |-> <<>>, given |-> NoGiven,
     just_created |-> FALSE,
     found |-> FALSE, raised |-> FALSE, session |-> NoSession, job |-> NoJob,
     summary |-> NoSummary, list |-> <<>>]

\* uuid.uuid4(): a value no earlier call has returned (122 random bits; a
\* repeated value is taken not to happen).
uuid4 == Len(issued) + 1

\* Job entries and result lists of the runs of the store.
J1 == Job(Str(<<"a", " ", "B">>), Str(<<"A">>), 1)
J2 == Job(Str(<<"B">>), Str(<<"a", "B">>), 2)
J3 == Job(NoneVal, Str(<<"B">>), 3)

CreateInputs ==
    { [results |-> <<J1, J2>>, search_terms |-> Some(<<"fraud", "data">>),
       zip_code |-> "40210", radius |-> 5],
      [results |-> <<NotADict, J3, J2>>, search_terms |-> None,
       zip_code |-> "10115", radius |-> 15],
      [results |-> <<>>, search_terms |-> Some(<<>>),
       zip_code |-> "40210", radius |-> 100] }

SessionIds == 1..MaxCreates
Indexes == (0 - 1)..4
Queries == { <<"b">>, <<" ", "A">>, <<"x", " ", "b">> }

\* A tool argument that is an int, something else (a string, say), or
\* left out.
IntArg(v) == [kind |-> "int", v |-> v]
OtherArg == [kind |-> "other", v |-> 0]
NoArg == [kind |-> "none", v |-> 0]

\* The argument session_id: an id, or left out.
SomeId(id) == [some |-> TRUE, v |-> id]
NoId == [some |-> FALSE, v |-> 0]

\* bool(x) of an optional text: neither None nor empty.
Truthy(text) == text.some /\ text.v # <<>>

\* bool(job) of a job entry: a dict is false when it is empty.
TruthyJob(job) ==
    ~(job.isdict /\ job.title.kind = "missing" /\ job.company.kind = "missing"
                 /\ job.link = 0)

\* No request: handle_call_tool is not running.  (t_resolved and n_resolved
\* record when the session was resolved: the clock value and the number of
\* sessions created until then; t_awaited is the clock value when the
\* handler began to await the parser and waited the ticks it waited; error
\* is the text of the exception in the response, details what the parser
\* returned; hint is the second sentence of the response to an index that
\* holds no job.)
NoCall ==
    [pc |-> "idle", query |-> None, session_id |-> NoId, job_index |-> NoArg,
     resolved_session |-> NoSession, t_resolved |-> 0, n_resolved |-> 0,
     job |-> NoJob,
     response |-> "none", total_jobs |-> 0,
     t_awaited |-> 0, waited |-> 0, error |-> <<>>, details |-> "none",
     hint |-> [text |-> "", total |-> 0]]

\* The largest number of terms of one search_jobs call in the model, and so
\* of its workers.
MaxTerms == 2

\* The arguments of a constructor call that has not been made.
NoConfig ==
    [min_delay |-> 0, max_delay |-> 0, max_retries |-> 0, backoff_factor |-> 0,
     user_agents |-> [kind |-> "none", v |-> <<>>]]

\* No StepstoneJobScraper yet.  (agents and drawn are _user_agent_cycle: the
\* pool and the number of next() calls on it; headers is the User-Agent of
\* self.headers; given records the arguments of the constructor call.)
NoScraper ==
    [exists |-> FALSE, raised |-> "none", min_delay |-> 0, max_delay |-> 0,
     max_retries |-> 0, backoff_factor |-> 0, agents |-> <<>>, drawn |-> 0,
     headers |-> "none", given |-> NoConfig]

\* No JobDetailParser yet.  (headers is the User-Agent of self.headers.)
NoParser == [exists |-> FALSE, raised |-> "none", headers |-> "none"]

\* The calls of fetch_job_listings: slot 0 is a call made directly, slot w
\* the call of the w-th task of search_jobs.
Slots == 0..MaxTerms

NoUrl == [term |-> "", zip_code |-> "", radius |-> 0]

\* fetch_job_listings not called.  (n numbers the calls of a slot; requests
\* and sleeps are what this call has sent and slept so far, outcomes what
\* its attempts ended in, and trace the steps of the call in order: each
\* throttle with the delay it returned, each request, each backoff with the
\* delay computed, and whether time.sleep was called for it.)
NoFetch ==
    [pc |-> "idle", n |-> 0, url |-> NoUrl, attempt |-> 0, requests |-> <<>>,
     sleeps |-> <<>>, trace |-> <<>>, outcomes |-> <<>>, ret |-> <<>>,
     raised |-> FALSE]

\* search_jobs not called.  (pool: the ThreadPoolExecutor is made; started
\* tasks have been taken by a worker; collected are the futures
\* the loop of line 250 has handled; results is the dict of line 237.)
NoSearch ==
    [pc |-> "idle", search_terms |-> <<>>, zip_code |-> "", radius |-> 0,
     pool |-> FALSE, max_workers |-> 0, started |-> 0,
     collected |-> {}, results |-> <<>>, ret |-> <<>>,
     error |-> <<>>]

\* No call of the parser.  (n numbers the calls; op is the method called,
\* fetch_job_page or parse_job_details; failed is the step that failed, cause
\* the text of its exception; raised and message are the exception that
\* leaves the call, the message as the parts it is put together from;
\* kwargs are the keyword arguments the constructor was called with.)
NoPage ==
    [pc |-> "idle", n |-> 0, op |-> "none", url |-> "", requests |-> <<>>,
     sleeps |-> <<>>, failed |-> "none", cause |-> "", raised |-> "none",
     message |-> <<>>, ret |-> "none", kwargs |-> [given |-> FALSE, config |-> NoConfig]]

\* No search_jobs request: handle_call_tool is not running it.  (given are
\* the arguments as they came, search_terms, zip_code and radius the values
\* of lines 371-373; t_awaited is the clock value when the handler began to
\* await the search and waited the ticks it waited; all_jobs and session are
\* lines 405-417; response is the text returned, as its kind, and error the
\* text of the exception in it.)
NoTool ==
    [pc |-> "idle", search_terms |-> <<>>, zip_code |-> "", radius |-> 0,
     t_awaited |-> 0, waited |-> 0, all_jobs |-> <<>>, session |-> 0,
     created |-> FALSE, response |-> "none", error |-> <<>>, total_jobs |-> 0]

\* The threads that call the store.
Threads == {1, 2}

\* A thread that is in no method of the store.  (op is the method and sid
\* its argument; size, pos and expired are the state of the iteration of
\* _cleanup_expired_sessions; session is the local variable of get_session;
\* raised is the exception that left the method, ret what it returned.)
NoThread ==
    [pc |-> "idle", op |-> "none", sid |-> 0, size |-> 0, pos |-> 0,
     expired |-> <<>>, session |-> NoSession, raised |-> "none",
     found |-> FALSE, ret |-> <<>>]

\* No listing page.  (html is the page, jobs what the extraction returned.)
NoListing ==
    [pc |-> "none", html |-> [container |-> FALSE, articles |-> <<>>], jobs |-> <<>>]

\* No item of the read stream.  (kind is "message" for a SessionMessage and
\* "exception" for an exception, payload the text it was made from, error the
\* text of a ValueError of the reader.)
NoItem == [kind |-> "none", payload |-> <<>>, error |-> ""]

\* content_length = None (no int is negative among the lengths of the model)
NoLength == 0 - 1

\* No transport is open.  (transport is the context manager main entered,
\* pc where stdin_reader is, stdin the decoded text not read yet, eof whether
\* the input ends after it, headers and content_length the locals of the
\* reader, item what it is about to send, read_stream the items sent so far,
\* unanswered the messages the server has not answered yet, write_stream the
\* message the server is sending, stdout the writes so far, framing_mode the
\* value of framing_mode["value"] with "unset" while framing_event is not
\* set, assigned how often it was assigned, notified the messages the server
\* sent on its own, frames how the peer built the input, first_read the
\* framing of the first payload the reader read completely.)
NoTransport ==
    [transport |-> "none", pc |-> "closed", stdin |-> <<>>, eof |-> TRUE,
     headers |-> <<>>, content_length |-> NoLength, item |-> NoItem,
     read_stream |-> <<>>, unanswered |-> 0, write_stream |-> <<>>,
     stdout |-> <<>>, framing_mode |-> "unset", assigned |-> 0,
     notified |-> 0, frames |-> <<>>, first_read |-> "none"]

\* No request is handled, no thread is in the store, no page is at hand.
NothingHandled ==
    /\ tool = NoTool
    /\ threads = [th \in Threads |-> NoThread]
    /\ listing = NoListing
    /\ stdio = NoTransport

\* Nothing of part 2 is constructed or running.
NothingBuilt ==
    /\ scraper = NoScraper
    /\ parser = NoParser
    /\ http = <<>>
    /\ sleep_calls = <<>>
    /\ fetch = [w \in Slots |-> NoFetch]
    /\ search = NoSearch
    /\ page = NoPage
    /\ NothingHandled

Init ==
    /\ sessions = <<>>
    /\ now = 0
    /\ issued = <<>>
    /\ last = Obs("none")
    /\ call = NoCall
    /\ NothingBuilt

\* Whether the call before this one was the create_session that returned
\* session_id, with no tick of the clock in between.
JustCreated(session_id) == last.op = "create_session" /\ last.sid = session_id

\* Time passes between two calls.
Tick ==
    /\ now < MaxTime
    /\ now' = now + 1
    /\ last' = Obs("tick")
    /\ UNCHANGED <<sessions, issued, call, fetchVars, toolVars>>

CreateSession(in) ==
    /\ Len(issued) < MaxCreates
    /\ LET r == create_session(sessions, now, uuid4, in.results, in.search_terms,
                               in.zip_code, in.radius)
       IN  /\ sessions' = r.sessions
           /\ issued' = Append(issued, [t |-> now, given |-> in])
           /\ last' = [Obs("create_session") EXCEPT !.t = now, !.sid = r.ret,
                                                    !.given = in]
    /\ UNCHANGED <<now, call, fetchVars, toolVars>>

GetSession(session_id) ==
    /\ LET r == get_session(sessions, now, session_id)
       IN  /\ sessions' = r.sessions
           /\ last' = [Obs("get_session") EXCEPT !.t = now, !.sid = session_id,
                                                 !.just_created = JustCreated(session_id),
                                                 !.given = IF JustCreated(session_id)
                                                           THEN last.given ELSE NoGiven,
                                                 !.found = r.found,
                                                 !.session = r.session]
    /\ UNCHANGED <<now, issued, call, fetchVars, toolVars>>

FindJobInSession(session_id, job_query) ==
    /\ LET r == find_job_in_session(sessions, now, session_id, job_query)
       IN  /\ sessions' = r.sessions
           /\ last' = [Obs("find_job_in_session") EXCEPT !.t = now, !.sid = session_id,
                                                        !.query = job_query,
                                                        !.found = r.found,
                                                        !.raised = r.raised,
                                                        !.job = r.job]
    /\ UNCHANGED <<now, issued, call, fetchVars, toolVars>>

GetJobByIndex(session_id, job_index) ==
    /\ LET r == get_job_by_index(sessions, now, session_id, job_index)
       IN  /\ sessions' = r.sessions
           /\ last' = [Obs("get_job_by_index") EXCEPT !.t = now, !.sid = session_id,
                                                     !.idx = job_index,
                                                     !.found = r.found,
                                                     !.job = r.job]
    /\ UNCHANGED <<now, issued, call, fetchVars, toolVars>>

GetRecentSession ==
    /\ LET r == get_recent_session(sessions, now)
       IN  /\ sessions' = r.sessions
           /\ last' = [Obs("get_recent_session") EXCEPT !.t = now,
                                                       !.found = r.found,
                                                       !.session = r.session]
    /\ UNCHANGED <<now, issued, call, fetchVars, toolVars>>

GetSessionSummary(session_id) ==
    /\ LET r == get_session_summary(sessions, now, session_id)
       IN  /\ sessions' = r.sessions
           /\ last' = [Obs("get_session_summary") EXCEPT !.t = now, !.sid = session_id,
                                                        !.found = r.found,
                                                        !.summary = r.summary]
    /\ UNCHANGED <<now, issued, call, fetchVars, toolVars>>

ListActiveSessions ==
    /\ LET r == list_active_sessions(sessions, now)
       IN  /\ sessions' = r.sessions
           /\ last' = [Obs("list_active_sessions") EXCEPT !.t = now, !.list = r.ret]
    /\ UNCHANGED <<now, issued, call, fetchVars, toolVars>>

GetActiveSessionOverview ==
    /\ LET r == get_active_session_overview(sessions, now)
       IN  /\ sessions' = r.sessions
           /\ last' = [Obs("get_active_session_overview") EXCEPT !.t = now,
                                                                !.list = r.ret]
    /\ UNCHANGED <<now, issued, call, fetchVars, toolVars>>

Next ==
    \/ Tick
    \/ \E in \in CreateInputs : CreateSession(in)
    \/ \E session_id \in SessionIds : GetSession(session_id)
    \/ \E session_id \in SessionIds, job_query \in Queries :
            FindJobInSession(session_id, job_query)
    \/ \E session_id \in SessionIds, job_index \in Indexes :
            GetJobByIndex(session_id, job_index)
    \/ GetRecentSession
    \/ \E session_id \in SessionIds : GetSessionSummary(session_id)
    \/ ListActiveSessions
    \/ GetActiveSessionOverview

Spec == Init /\ [][Next]_vars

----------------------------------------------------------------------------
(* find_job_in_session alone: a store holding one session, whose result    *)
(* list is any list of at most MaxResults entries over a small alphabet,   *)
(* queried with any query of at most MaxQueryLen characters.               *)

FindChars == {"a", "B", " "}

\* The texts of at most n characters.
Texts(n) == UNION {[1..k -> FindChars] : k \in 0..n}

FindTitles ==
    {Str(x) : x \in Texts(MaxTitleLen)} \cup {NoneVal, Missing, NonStr("int")}

FindCompanies ==
    {Str(x) : x \in Texts(MaxCompanyLen)} \cup {NoneVal, Missing}

FindEntries ==
    {Job(title, company, 0) : title \in FindTitles, company \in FindCompanies}
        \cup {NotADict}

\* The result lists of at most n entries.
FindResults(n) == UNION {[1..k -> FindEntries] : k \in 0..n}

FindQueries == Texts(MaxQueryLen)

InitFind ==
    \E results \in FindResults(MaxResults) :
        LET in == [results |-> results, search_terms |-> None,
                   zip_code |-> "40210", radius |-> 5]
        IN  /\ sessions = create_session(<<>>, 0, 1, in.results, in.search_terms,
                                         in.zip_code, in.radius).sessions
            /\ now = 0
            /\ issued = <<[t |-> 0, given |-> in]>>
            /\ last = [Obs("create_session") EXCEPT !.sid = 1, !.given = in]
            /\ call = NoCall
            /\ NothingBuilt

\* One query of the session just created.
NextFind ==
    /\ last.op = "create_session"
    /\ \E job_query \in FindQueries : FindJobInSession(1, job_query)

SpecFind == InitFind /\ [][NextFind]_vars

----------------------------------------------------------------------------
(* handle_call_tool, the tool get_job_details (src/stepstone_server.py,     *)
(* lines 467-539): the request up to the job it is to fetch.  The handler   *)
(* runs on the event loop and does not await before line 544, so no other   *)
(* request runs between its calls of the store; the clock does.            *)

\* A response that ends the request.
Respond(text) == [call EXCEPT !.pc = "done", !.response = text]

\* The handler without the tests of lines 474-488.
ValidateSelectors_nothing(query, job_index) == "ok"

\* Lines 474-488: the error text of the first test that fails.
ValidateSelectors(query, job_index) ==
    IF job_index.kind # "none" /\ (job_index.kind # "int" \/ job_index.v < 1)
    THEN "job_index must be an integer >= 1"
    ELSE IF ~Truthy(query) /\ job_index.kind = "none"
    THEN "provide either a query or a job_index"
    ELSE "ok"

\* The resolution that takes the most recent session when the one asked for
\* is not there.
ResolveSession_fallback(store, t, session_id) ==
    IF session_id.some /\ get_session(store, t, session_id.v).found
    THEN get_session(store, t, session_id.v)
    ELSE get_recent_session(store, t)

\* Lines 500-510: the session asked for, or the most recent one when no
\* session_id is given.
ResolveSession(store, t, session_id) ==
    IF session_id.some
    THEN get_session(store, t, session_id.v)
    ELSE get_recent_session(store, t)

\* Lines 469-516: the arguments are validated and the session is resolved.
GetJobDetailsResolve(arguments) ==
    /\ call.pc = "idle"
    /\ LET query == IF Truthy(arguments.query) THEN arguments.query
                    ELSE arguments.job_query
           session_id == arguments.session_id
           job_index == arguments.job_index
           started == [NoCall EXCEPT !.query = query, !.session_id = session_id,
                                     !.job_index = job_index, !.t_resolved = now,
                                     !.n_resolved = Len(issued)]
           r == ResolveSession(sessions, now, session_id)
           text == ValidateSelectors(query, job_index)
       IN  IF text # "ok"
           THEN /\ call' = [started EXCEPT !.pc = "done", !.response = text]
                /\ UNCHANGED sessions
           ELSE /\ sessions' = r.sessions
                /\ call' = IF r.found
                           THEN [started EXCEPT !.pc = "lookup",
                                                !.resolved_session = r.session]
                           ELSE [started EXCEPT
                                    !.pc = "done",
                                    !.response = IF session_id.some
                                                 THEN "Session not found or expired"
                                                 ELSE "No jobs available in the selected session"]
    /\ last' = Obs("get_job_details")
    /\ UNCHANGED <<now, issued, fetchVars, toolVars>>

\* The hint that names the range whatever the number of jobs.
Hint_range_only(total_jobs) ==
    [text |-> "Valid job_index values are between 1 and", total |-> total_jobs]

\* Lines 523-527: the hint names the valid range when the session has jobs.
Hint(total_jobs) ==
    IF total_jobs # 0
    THEN [text |-> "Valid job_index values are between 1 and", total |-> total_jobs]
    ELSE [text |-> "There are no stored jobs for this session yet", total |-> 0]

\* The lookup that never goes by the index.
ByIndex_never(job_index) == FALSE

\* Line 520: if job_index is not None
ByIndex(job_index) == job_index.kind # "none"

\* Lines 518-539: the job is looked up in the resolved session, by index
\* when there is one, else by the query.
GetJobDetailsLookup ==
    /\ call.pc = "lookup"
    /\ LET id == call.resolved_session.session_id
           byIndex == get_job_by_index(sessions, now, id, call.job_index.v)
           byQuery == find_job_in_session(sessions, now, id, call.query.v)
       IN  IF ByIndex(call.job_index)
           THEN /\ sessions' = byIndex.sessions
                /\ call' = IF byIndex.found /\ TruthyJob(byIndex.job)
                           THEN [call EXCEPT !.pc = "parse", !.job = byIndex.job]
                           ELSE [Respond("No job found at the requested index")
                                    EXCEPT !.total_jobs =
                                                Len(call.resolved_session.results),
                                           !.hint =
                                                Hint(Len(call.resolved_session.results))]
           ELSE /\ sessions' = byQuery.sessions
                /\ call' = IF byQuery.raised
                           THEN Respond("Error retrieving job details")
                           ELSE IF byQuery.found /\ TruthyJob(byQuery.job)
                           THEN [call EXCEPT !.pc = "parse", !.job = byQuery.job]
                           ELSE Respond("No job found matching")
    /\ last' = Obs("get_job_details")
    /\ UNCHANGED <<now, issued, fetchVars, toolVars>>

\* The response is returned.
GetJobDetailsReturn ==
    /\ call.pc = "done"
    /\ call' = NoCall
    /\ last' = Obs("get_job_details")
    /\ UNCHANGED <<sessions, now, issued, fetchVars, toolVars>>

ToolSessionIds == {NoId} \cup {SomeId(id) : id \in SessionIds}
ToolQueries == {None, Some(<<>>), Some(<<"B">>)}
ToolJobQueries == {None, Some(<<"a">>)}
ToolIndexes == {NoArg, OtherArg, IntArg(0), IntArg(2), IntArg(4)}

ToolArguments ==
    [query : ToolQueries, job_query : ToolJobQueries,
     session_id : ToolSessionIds, job_index : ToolIndexes]

\* The event loop runs one handler at a time up to its first await.
Between == call.pc # "lookup"

NextTool ==
    \/ Tick
    \/ \E in \in CreateInputs : Between /\ CreateSession(in)
    \/ Between /\ GetRecentSession
    \/ \E arguments \in ToolArguments : GetJobDetailsResolve(arguments)
    \/ GetJobDetailsLookup
    \/ GetJobDetailsReturn

SpecTool == Init /\ [][NextTool]_vars

----------------------------------------------------------------------------
(* The claims about the session store.                                     *)

\* A session created at clock value t0 is expired at clock value t: more
\* than the timeout has passed.
ExpiredAt(t0, t) == t - t0 > session_timeout * TicksPerSec

\* session_id was returned by a create_session and is not expired at t.
Live(session_id, t) ==
    /\ session_id \in 1..Len(issued)
    /\ ~ExpiredAt(issued[session_id].t, t)

\* The search terms a create_session stores for the terms it is given.
TermsOf(search_terms) == IF search_terms.some THEN search_terms.v ELSE <<>>

\* C1: create_session(R, T, loc) followed immediately by get_session(id)
\* returns a session whose results are R, in order, and whose search terms
\* are T, or the empty list when T was None or left out.
C1_RoundTrip ==
    (last.op = "get_session" /\ last.just_created) =>
        /\ last.found
        /\ last.session.session_id = last.sid
        /\ last.session.results = last.given.results
        /\ last.session.search_terms = TermsOf(last.given.search_terms)

C1_Witness ==
    /\ last.op = "get_session" /\ last.just_created /\ last.found
    /\ last.given.search_terms = None
    /\ last.session.search_terms = <<>>
    /\ Len(last.session.results) = 3

\* What a lookup of the last call returned: the sessions it returned or
\* listed, as <<session id, timestamp>> pairs.
Returned ==
    CASE last.op \in {"get_session", "get_recent_session"} /\ last.found ->
            {<<last.session.session_id, last.session.timestamp>>}
      [] last.op \in {"get_job_by_index", "find_job_in_session",
                      "get_session_summary"} /\ last.found ->
            {<<last.sid, issued[last.sid].t>>}
      [] last.op \in {"list_active_sessions", "get_active_session_overview"} ->
            {<<IF last.op = "list_active_sessions" THEN last.list[i]
               ELSE last.list[i].session_id,
               issued[IF last.op = "list_active_sessions" THEN last.list[i]
                      ELSE last.list[i].session_id].t>> : i \in 1..Len(last.list)}
      [] OTHER -> {}

\* C2: no lookup returns or lists a session that is expired at the time of
\* the call, also when the session is still in the store.
C2_ExpiredUnreachable ==
    \A r \in Returned : r[2] = issued[r[1]].t /\ ~ExpiredAt(r[2], last.t)

\* A lookup returned a session while an expired session was in the store.
C2_Witness ==
    /\ last.op = "get_job_by_index" /\ last.found
    /\ \E i \in 1..Len(sessions) : ExpiredAt(sessions[i].timestamp, now)

\* C3, as claimed: get_session returns the session at every t < t0 + tau and
\* absent at every t >= t0 + tau.
C3_AbsentFromTimeout ==
    (last.op = "get_session" /\ last.sid \in 1..Len(issued)) =>
        LET t0 == issued[last.sid].t
            tau == session_timeout * TicksPerSec
        IN  /\ last.t < t0 + tau => last.found
            /\ last.t >= t0 + tau => ~last.found

\* C3, amended: get_session returns the session at every t <= t0 + tau and
\* absent at every t > t0 + tau.
C3_AbsentAfterTimeout ==
    (last.op = "get_session" /\ last.sid \in 1..Len(issued)) =>
        LET t0 == issued[last.sid].t
            tau == session_timeout * TicksPerSec
        IN  /\ last.t <= t0 + tau =>
                last.found /\ last.session.session_id = last.sid
                           /\ last.session.timestamp = t0
            /\ last.t > t0 + tau => ~last.found

\* A read at exactly t0 + tau.
C3_Witness ==
    /\ last.op = "get_session" /\ last.sid \in 1..Len(issued)
    /\ last.t = issued[last.sid].t + session_timeout * TicksPerSec
    /\ last.found

\* C4: for a live session with results R, get_job_by_index(id, k) returns
\* R[k-1] for k in 1..len(R) and absent for k < 1 and for k > len(R); it
\* returns absent for an unknown or expired session id.
C4_JobByIndex ==
    last.op = "get_job_by_index" =>
        IF Live(last.sid, last.t)
        THEN LET R == issued[last.sid].given.results
             IN  IF last.idx \in 1..Len(R)
                 THEN last.found /\ last.job = R[last.idx]
                 ELSE ~last.found
        ELSE ~last.found

C4_Witness ==
    /\ last.op = "get_job_by_index" /\ last.found
    /\ last.idx = 3
    /\ last.job = J2

----------------------------------------------------------------------------
(* The claims about find_job_in_session.                                   *)

\* The least member of a non-empty set of numbers.
Least(S) == CHOOSE i \in S : \A j \in S : i <= j

HasTitle(job) == job.isdict /\ job.title.kind = "str"
HasCompany(job) == job.isdict /\ job.company.kind = "str"

\* The entry find_job_in_session is to return for query text q, matched
\* without regard to case: the first entry whose title contains q, else the
\* first whose company contains q, else the first whose title has a word
\* that is a word of q; NoJob when there is none.
Expected(R, q) ==
    LET InTitle == {i \in 1..Len(R) :
                        HasTitle(R[i]) /\ Contains(Lower(R[i].title.s), Lower(q))}
        InCompany == {i \in 1..Len(R) :
                        HasCompany(R[i]) /\ Contains(Lower(R[i].company.s), Lower(q))}
        ByWord == {i \in 1..Len(R) :
                        HasTitle(R[i]) /\
                        \E w \in {Split(Lower(q))[k] : k \in 1..Len(Split(Lower(q)))} :
                            InList(w, Split(Lower(R[i].title.s)))}
    IN  IF InTitle # {} THEN R[Least(InTitle)]
        ELSE IF InCompany # {} THEN R[Least(InCompany)]
        ELSE IF ByWord # {} THEN R[Least(ByWord)]
        ELSE NoJob

\* The result list of the session the last call looked in.
LastResults == issued[last.sid].given.results

\* C5, as claimed: the stages are applied to the query as it is given.
C5_PriorityRawQuery ==
    (last.op = "find_job_in_session" /\ Live(last.sid, last.t)) =>
        /\ last.job = Expected(LastResults, last.query)
        /\ last.found = (last.job # NoJob)

\* C5, amended: find_job_in_session applies its stages in strict priority to
\* the query trimmed of leading and trailing whitespace: the first result
\* whose title contains it, even when an earlier result matches only by
\* company; else the first result whose company contains it; else the first
\* result whose title has a word equal to a word of the query; else absent.
C5_Priority ==
    (last.op = "find_job_in_session" /\ Live(last.sid, last.t)) =>
        /\ last.job = Expected(LastResults, Strip(last.query))
        /\ last.found = (last.job # NoJob)

\* The second result is returned for its title though the first result
\* matches by company.
C5_Witness ==
    /\ last.op = "find_job_in_session" /\ last.found
    /\ Len(LastResults) = 2
    /\ last.job = LastResults[2]
    /\ last.job # LastResults[1]
    /\ last.query = <<"B">>
    /\ HasCompany(LastResults[1])
    /\ Contains(Lower(LastResults[1].company.s), <<"b">>)

\* The first entry of a list of well-formed entries that satisfies P.
FirstOf(R, P(_)) ==
    IF \E i \in 1..Len(R) : P(R[i])
    THEN R[Least({i \in 1..Len(R) : P(R[i])})]
    ELSE NoJob

\* The search in the result list with the malformed entries removed stage
\* by stage.
ExpectedWithoutMalformed(R, q) ==
    LET ql == Strip(Lower(q))
        words == {Split(ql)[k] : k \in 1..Len(Split(ql))}
        t == FirstOf(SelectSeq(R, HasTitle),
                     LAMBDA job : Contains(Lower(job.title.s), ql))
        c == FirstOf(SelectSeq(R, HasCompany),
                     LAMBDA job : Contains(Lower(job.company.s), ql))
        w == FirstOf(SelectSeq(R, HasTitle),
                     LAMBDA job : \E x \in words : InList(x, Split(Lower(job.title.s))))
    IN  IF t # NoJob THEN t ELSE IF c # NoJob THEN c ELSE w

\* C6: find_job_in_session never raises on malformed entries; an entry that
\* is no dict, or whose compared field is missing or no string, is skipped in
\* that stage: the result is that of the search with those entries removed
\* for the stage, and absent when every entry is malformed.
C6_SkipsMalformed ==
    (last.op = "find_job_in_session" /\ Live(last.sid, last.t)) =>
        /\ ~last.raised
        /\ last.job = ExpectedWithoutMalformed(LastResults, last.query)
        /\ last.found = (last.job # NoJob)
        /\ (\A i \in 1..Len(LastResults) :
                ~HasTitle(LastResults[i]) /\ ~HasCompany(LastResults[i]))
            => ~last.found

\* A match found behind an entry with no string title.
C6_Witness ==
    /\ last.op = "find_job_in_session" /\ last.found /\ ~last.raised
    /\ Len(LastResults) = 2
    /\ ~HasTitle(LastResults[1])
    /\ LastResults[1].isdict
    /\ last.job = LastResults[2]
    /\ HasTitle(LastResults[2])

----------------------------------------------------------------------------
(* The claims about create_session, the frame of the lookups and the       *)
(* overview.                                                               *)

\* The ids of the sessions created so far that are not expired at t.
LiveIds(t) == {id \in 1..Len(issued) : ~ExpiredAt(issued[id].t, t)}

\* The session a create_session call, as recorded, is to store under id.
Stored(id, created) ==
    SearchSession(id, TermsOf(created.given.search_terms),
                  created.given.zip_code, created.given.radius,
                  created.given.results, created.t)

\* What a create_session step changes.
CreateStep ==
    last'.op = "create_session" =>
        /\ last'.sid \notin 1..Len(issued)
        /\ \A i \in 1..Len(sessions) : sessions[i].session_id # last'.sid
        /\ \A i \in 1..Len(sessions) :
                ~ExpiredAt(sessions[i].timestamp, now) =>
                    \E j \in 1..Len(sessions') : sessions'[j] = sessions[i]
        /\ \E j \in 1..Len(sessions') : sessions'[j] = Stored(last'.sid, last')
        /\ \A j \in 1..Len(sessions') : ~ExpiredAt(sessions'[j].timestamp, now')
        /\ \A j \in 1..Len(sessions') :
                sessions'[j].session_id = last'.sid
                \/ \E i \in 1..Len(sessions) : sessions[i] = sessions'[j]

\* create_session is possible in every state (within the number of calls
\* of a run), for every input.
CreateEnabled ==
    Len(issued) < MaxCreates => \A in \in CreateInputs : ENABLED CreateSession(in)

\* C8: create_session always succeeds and returns an id no earlier create
\* returned; it adds the new session without replacing or altering any
\* non-expired session already stored, and when it returns the store holds
\* the new session and no expired session.
C8_Create == []CreateEnabled /\ [][CreateStep]_vars

\* A create_session that kept a live session and purged nothing.
C8_Witness ==
    /\ last.op = "create_session"
    /\ Len(sessions) = 2
    /\ sessions[2].session_id = last.sid
    /\ sessions[1].timestamp < sessions[2].timestamp

\* C9: get_session, get_job_by_index, find_job_in_session and
\* get_session_summary change the store only by deleting the addressed
\* session when it is found expired; every other stored session and the
\* contents of every session stay as they are, and the store is unchanged
\* when the id is unknown or live.
C9_LookupFrame ==
    [][last'.op \in {"get_session", "get_job_by_index", "find_job_in_session",
                     "get_session_summary"} =>
        LET addressed == {i \in 1..Len(sessions) :
                            sessions[i].session_id = last'.sid}
        IN  IF \E i \in addressed : ExpiredAt(sessions[i].timestamp, now)
            THEN sessions' = SelectSeq(sessions,
                                       LAMBDA x : x.session_id # last'.sid)
            ELSE sessions' = sessions
    ]_vars

\* An expired session was deleted by the lookup that addressed it, and
\* another expired session was left in the store.
C9_Witness ==
    /\ last.op = "get_session" /\ ~last.found
    /\ last.sid \in 1..Len(issued)
    /\ ExpiredAt(issued[last.sid].t, now)
    /\ ~HasKey(sessions, last.sid)
    /\ \E i \in 1..Len(sessions) : ExpiredAt(sessions[i].timestamp, now)

\* The text of the radii used.
RadiusText(radius) ==
    CASE radius = 5 -> "5" [] radius = 15 -> "15" [] radius = 100 -> "100"

\* The text of a list of at most two search terms.
TermsText(T) ==
    CASE Len(T) = 0 -> "None"
      [] Len(T) = 1 -> T[1]
      [] Len(T) = 2 -> T[1] \o ", " \o T[2]

\* C10: get_active_session_overview returns one entry per non-expired
\* session, newest first; each entry has the session id, the search terms
\* joined by ', ' (or 'None'), the location text, the number of stored
\* results, and the age in whole seconds, never negative.
C10_Overview ==
    last.op = "get_active_session_overview" =>
        LET ov == last.list
            Id(k) == ov[k].session_id
        IN  /\ Len(ov) = Cardinality(LiveIds(last.t))
            /\ {Id(k) : k \in 1..Len(ov)} = LiveIds(last.t)
            /\ \A k \in 1..Len(ov), m \in 1..Len(ov) :
                    k < m => issued[Id(k)].t >= issued[Id(m)].t
            /\ \A k \in 1..Len(ov) :
                    LET g == issued[Id(k)].given
                        age == ov[k].age_seconds
                    IN  /\ ov[k].search_terms = TermsText(TermsOf(g.search_terms))
                        /\ ov[k].location =
                                g.zip_code \o " (+-" \o RadiusText(g.radius) \o "km)"
                        /\ ov[k].result_count = Len(g.results)
                        /\ age >= 0
                        /\ age * TicksPerSec <= last.t - issued[Id(k)].t
                        /\ last.t - issued[Id(k)].t < (age + 1) * TicksPerSec

\* Two sessions of different ages, the newer one first, created without
\* search terms, the older one a whole second old.
C10_Witness ==
    /\ last.op = "get_active_session_overview"
    /\ Len(last.list) = 2
    /\ last.list[1].session_id = 2
    /\ last.list[1].search_terms = "None"
    /\ last.list[2].search_terms = "fraud, data"
    /\ last.list[2].age_seconds = 1
    /\ last.list[1].age_seconds = 0
    /\ issued[1].t < issued[2].t

----------------------------------------------------------------------------
(* The claims about the most recent session.                               *)

\* The sessions get_recent_session may return at t, when n sessions have
\* been created: those not expired whose creation is the latest.
Latest(n, t) ==
    {id \in LiveIds(t) \cap 1..n :
        \A other \in LiveIds(t) \cap 1..n : issued[other].t <= issued[id].t}

\* C7: get_recent_session returns, among the sessions not expired at call
\* time, the one with the latest creation timestamp, and absent when there
\* is none; after it returns no expired session remains in storage.
\* get_job_details called without a session_id resolves the job against
\* exactly this session.
C7_Recent ==
    /\ last.op = "get_recent_session" =>
        /\ last.found = (LiveIds(last.t) # {})
        /\ last.found =>
            /\ last.session.session_id \in Latest(Len(issued), last.t)
            /\ last.session =
                    Stored(last.session.session_id, issued[last.session.session_id])
        /\ \A j \in 1..Len(sessions) : ~ExpiredAt(sessions[j].timestamp, last.t)
    /\ (call.pc = "parse" /\ ~call.session_id.some) =>
        LET id == call.resolved_session.session_id
            R == issued[id].given.results
        IN  /\ id \in Latest(call.n_resolved, call.t_resolved)
            /\ call.resolved_session = Stored(id, issued[id])
            /\ IF call.job_index.kind = "int"
               THEN call.job_index.v \in 1..Len(R) /\ call.job = R[call.job_index.v]
               ELSE call.job = Expected(R, Strip(call.query.v))

\* A request without session_id took its job from the newer of two live
\* sessions.
C7_Witness ==
    /\ call.pc = "parse" /\ ~call.session_id.some
    /\ call.job_index = IntArg(2)
    /\ Len(issued) = 2
    /\ LiveIds(call.t_resolved) = {1, 2}
    /\ call.n_resolved = 2
    /\ issued[1].t < issued[2].t
    /\ call.resolved_session.session_id = 2
    /\ call.job = issued[2].given.results[2]
    /\ call.job # issued[1].given.results[2]

----------------------------------------------------------------------------
(* Part 2.  The fetch client: StepstoneJobScraper, its constructor, the    *)
(* throttle, the backoff and the retry loop of fetch_job_listings           *)
(* (src/stepstone_server.py, lines 54-221).                                 *)
(*                                                                         *)
(* Delays are whole numbers of a unit (a tenth of a second, say).           *)

\* The direct calls of fetch_job_listings in one run.
MaxFetches == 2

\* The largest max_retries of the configurations tried.
MaxRetries == 3

\* The largest delay bound of the configurations tried.
MaxDelay == 2

DEFAULT_USER_AGENTS == <<"Chrome/Windows", "Safari/Mac", "Chrome/Linux">>

\* The argument user_agents: None, a sequence, or an iterator that yields
\* nothing (which, unlike an empty sequence, is true).
NoAgents == [kind |-> "none", v |-> <<>>]
AgentSeq(v) == [kind |-> "seq", v |-> v]
EmptyIterator == [kind |-> "iter", v |-> <<>>]

\* bool(user_agents)
TruthyAgents(user_agents) ==
    \/ user_agents.kind = "iter"
    \/ user_agents.kind = "seq" /\ user_agents.v # <<>>

\* StepstoneJobScraper.__init__ (lines 57-91): the object, or the ValueError
\* raised.
StepstoneJobScraper(min_delay, max_delay, max_retries, backoff_factor, user_agents) ==
    LET agents == IF TruthyAgents(user_agents) THEN user_agents.v
                  ELSE DEFAULT_USER_AGENTS
    IN  IF min_delay < 0 \/ max_delay < 0
        THEN [NoScraper EXCEPT !.raised = "Delay values must be non-negative"]
        ELSE IF max_delay < min_delay
        THEN [NoScraper EXCEPT
                !.raised = "max_delay must be greater than or equal to min_delay"]
        ELSE IF agents = <<>>
             THEN [NoScraper EXCEPT
                     !.raised = "At least one User-Agent must be provided"]
             ELSE [NoScraper EXCEPT
                     !.exists = TRUE, !.min_delay = min_delay,
                     !.max_delay = max_delay, !.max_retries = max_retries,
                     !.backoff_factor = backoff_factor, !.agents = agents]

\* _build_headers with the first identifier on every call.
_build_headers_no_rotation(self) ==
    [headers |-> self.agents[1],
     self |-> [self EXCEPT !.drawn = @ + 1, !.headers = self.agents[1]]]

\* _build_headers (lines 93-97): next(self._user_agent_cycle) is the next
\* identifier of the pool, starting over after the last.
_build_headers(self) ==
    LET agent == self.agents[(self.drawn % Len(self.agents)) + 1]
    IN  [headers |-> agent,
         self |-> [self EXCEPT !.drawn = @ + 1, !.headers = agent]]

\* random.uniform(a, b): some value from a to b.
Uniform(a, b) == a..b

\* _apply_throttle that never sleeps when the window has no width.
_apply_throttle_zero_width(self, uniform) ==
    IF self.max_delay = self.min_delay
    THEN [sleep |-> <<>>, ret |-> 0]
    ELSE [sleep |-> IF uniform > 0 THEN <<uniform>> ELSE <<>>, ret |-> uniform]

\* _apply_throttle (lines 99-105), uniform being the value random.uniform
\* returns: the time.sleep calls made (none or one) and the value returned.
_apply_throttle(self, uniform) ==
    IF self.max_delay = 0
    THEN [sleep |-> <<>>, ret |-> 0]
    ELSE [sleep |-> IF uniform > 0 THEN <<uniform>> ELSE <<>>, ret |-> uniform]

RECURSIVE Pow(_, _)
Pow(b, e) == IF e = 0 THEN 1 ELSE b * Pow(b, e - 1)

\* _calculate_backoff with a constant delay.
_calculate_backoff_constant(self, attempt) == Max(self.min_delay, 0)

\* _calculate_backoff (lines 107-109)
_calculate_backoff(self, attempt) ==
    Max(self.min_delay * Pow(self.backoff_factor, attempt), 0)

----------------------------------------------------------------------------
(* fetch_job_listings (lines 111-221), one step per blocking call: the     *)
(* throttle, the request, the backoff.                                      *)

\* StepstoneJobScraper(request_timeout=10)
request_timeout == 10

\* What the listing page of a search holds: the jobs lines 123-207 extract
\* from the response.
ListingOf(url) ==
    <<[title |-> url.term, company |-> "Unknown Company",
       description |-> "No description available", link |-> url]>>

\* How a request attempt ends: a page with listings, a page without the
\* container, a requests.RequestException (the transport failed, timed out,
\* or raise_for_status raised), or another exception while extracting.
Outcomes == {"ok", "no container", "RequestException", "Exception"}

\* fetch_job_listings entered (line 113): the loop runs when max_retries
\* allows a first attempt, else line 221 returns [].
Entered(self, n, url) ==
    [NoFetch EXCEPT !.n = n, !.url = url, !.attempt = 1,
                    !.pc = IF 1 <= self.max_retries THEN "throttle" ELSE "returned"]

\* The handlers with the second one missing: the exception leaves the call.
AfterAttempt_propagates(self, this, outcome) ==
    LET ended == [this EXCEPT !.outcomes = Append(@, outcome)]
    IN  CASE outcome = "ok" ->
                [ended EXCEPT !.pc = "returned", !.ret = ListingOf(this.url)]
          [] outcome = "no container" ->
                [ended EXCEPT !.pc = "returned", !.ret = <<>>]
          [] outcome = "RequestException" ->
                IF this.attempt = self.max_retries
                THEN [ended EXCEPT !.pc = "returned", !.ret = <<>>]
                ELSE [ended EXCEPT !.pc = "backoff"]
          [] OTHER ->
                [ended EXCEPT !.pc = "raised", !.raised = TRUE]

\* The handlers without the test of the last attempt: one attempt more.
AfterAttempt_one_more(self, this, outcome) ==
    LET ended == [this EXCEPT !.outcomes = Append(@, outcome)]
    IN  CASE outcome = "ok" ->
                [ended EXCEPT !.pc = "returned", !.ret = ListingOf(this.url)]
          [] outcome = "no container" ->
                [ended EXCEPT !.pc = "returned", !.ret = <<>>]
          [] outcome = "RequestException" ->
                IF this.attempt = self.max_retries + 1
                THEN [ended EXCEPT !.pc = "returned", !.ret = <<>>]
                ELSE [ended EXCEPT !.pc = "backoff"]
          [] OTHER ->
                [ended EXCEPT !.pc = "returned", !.ret = <<>>]

\* The handlers with every exception retried as a network failure is.
AfterAttempt_retries_all(self, this, outcome) ==
    LET ended == [this EXCEPT !.outcomes = Append(@, outcome)]
    IN  CASE outcome = "ok" ->
                [ended EXCEPT !.pc = "returned", !.ret = ListingOf(this.url)]
          [] outcome = "no container" ->
                [ended EXCEPT !.pc = "returned", !.ret = <<>>]
          [] OTHER ->
                IF this.attempt = self.max_retries
                THEN [ended EXCEPT !.pc = "returned", !.ret = <<>>]
                ELSE [ended EXCEPT !.pc = "backoff"]

\* Lines 121-128, 206-219: what the call does when its attempt ended.
AfterAttempt(self, this, outcome) ==
    LET ended == [this EXCEPT !.outcomes = Append(@, outcome)]
    IN  CASE outcome = "ok" ->
                [ended EXCEPT !.pc = "returned", !.ret = ListingOf(this.url)]
          [] outcome = "no container" ->
                [ended EXCEPT !.pc = "returned", !.ret = <<>>]
          [] outcome = "RequestException" ->
                IF this.attempt = self.max_retries
                THEN [ended EXCEPT !.pc = "returned", !.ret = <<>>]
                ELSE [ended EXCEPT !.pc = "backoff"]
          [] OTHER ->
                [ended EXCEPT !.pc = "returned", !.ret = <<>>]

\* A time.sleep call of a fetch: who sleeps, why, and how long.
Sleep(w, kind, d) == [w |-> w, kind |-> kind, d |-> d]

\* A step of a call, for its trace.
Step(e, d, slept) == [e |-> e, d |-> d, slept |-> slept]

\* The request of an attempt, as a step.
RequestStep == Step("request", 0, FALSE)

\* Line 115: self._apply_throttle()
Throttle(w) ==
    /\ fetch[w].pc = "throttle"
    /\ \E uniform \in IF scraper.max_delay = 0 THEN {0}
                      ELSE Uniform(scraper.min_delay, scraper.max_delay) :
          LET r == _apply_throttle(scraper, uniform)
              slept == [i \in 1..Len(r.sleep) |-> Sleep(w, "jitter", r.sleep[i])]
          IN  /\ sleep_calls' = sleep_calls \o slept
              /\ fetch' = [fetch EXCEPT
                            ![w].pc = "request",
                            ![w].sleeps = @ \o slept,
                            ![w].trace = Append(@, Step("throttle", r.ret,
                                                        r.sleep # <<>>))]
    /\ UNCHANGED <<storeVars, toolVars, scraper, parser, http, search, page>>

\* Lines 116-128, 206-213, 217-219: the request is sent with the headers of
\* _build_headers, and the attempt ends.
Request(w) ==
    /\ fetch[w].pc = "request"
    /\ LET built == _build_headers(scraper)
           sent == [by |-> "fetch_job_listings", w |-> w, url |-> fetch[w].url,
                    agent |-> built.headers, timeout |-> request_timeout]
       IN  /\ scraper' = built.self
           /\ http' = Append(http, sent)
           /\ \E outcome \in Outcomes :
                fetch' = [fetch EXCEPT
                            ![w] = AfterAttempt(scraper,
                                                [@ EXCEPT
                                                   !.requests = Append(@, sent),
                                                   !.trace = Append(@, RequestStep)],
                                                outcome)]
    /\ UNCHANGED <<storeVars, toolVars, parser, sleep_calls, search, page>>

\* Lines 214-216: the backoff before the next attempt.
Backoff(w) ==
    /\ fetch[w].pc = "backoff"
    /\ LET backoff == _calculate_backoff(scraper, fetch[w].attempt)
           slept == IF backoff > 0 THEN <<Sleep(w, "backoff", backoff)>> ELSE <<>>
       IN  /\ sleep_calls' = sleep_calls \o slept
           /\ fetch' = [fetch EXCEPT ![w].pc = "throttle",
                                     ![w].attempt = @ + 1,
                                     ![w].sleeps = @ \o slept,
                                     ![w].trace = Append(@, Step("backoff", backoff,
                                                                 backoff > 0))]
    /\ UNCHANGED <<storeVars, toolVars, scraper, parser, http, search, page>>

----------------------------------------------------------------------------
(* The fetch client alone: a client is constructed and fetch_job_listings   *)
(* is called on it, one call after the other.                               *)

\* The configurations tried: delays from -1 to MaxDelay, max_retries from 0
\* to MaxRetries, and the pools None, empty, two identifiers, and an
\* iterator that yields nothing.
MinDelays == (0 - 1)..MaxDelay
MaxDelays == (0 - 1)..MaxDelay
Retries == 0..MaxRetries
BackoffFactors == {2}
Pools == {NoAgents, AgentSeq(<<>>), AgentSeq(<<"UA-1", "UA-2">>), EmptyIterator}

Configs ==
    [min_delay : MinDelays, max_delay : MaxDelays, max_retries : Retries,
     backoff_factor : BackoffFactors, user_agents : Pools]

\* build_search_url (lines 223-226), as the parts it puts into the URL.
build_search_url(term, zip_code, radius) ==
    [term |-> term, zip_code |-> zip_code, radius |-> radius]

\* scraper = StepstoneJobScraper(...)
Construct(config) ==
    /\ ~scraper.exists /\ scraper.raised = "none"
    /\ scraper' = [StepstoneJobScraper(config.min_delay, config.max_delay,
                                       config.max_retries, config.backoff_factor,
                                       config.user_agents)
                     EXCEPT !.given = config]
    /\ UNCHANGED <<storeVars, toolVars, parser, http, sleep_calls, fetch, search, page>>

\* scraper.fetch_job_listings(url), called directly
FetchJobListings(url) ==
    /\ scraper.exists
    /\ fetch[0].pc \in {"idle", "returned"}
    /\ fetch[0].n < MaxFetches
    /\ fetch' = [fetch EXCEPT ![0] = Entered(scraper, fetch[0].n + 1, url)]
    /\ UNCHANGED <<storeVars, toolVars, scraper, parser, http, sleep_calls, search, page>>

\* The URL fetched: that of the search for "fraud" within 5 km of 40210.
FetchUrl == build_search_url("fraud", "40210", 5)

InitFetch == Init

NextFetch ==
    \/ \E config \in Configs : Construct(config)
    \/ FetchJobListings(FetchUrl)
    \/ Throttle(0)
    \/ Request(0)
    \/ Backoff(0)

SpecFetch == InitFetch /\ [][NextFetch]_vars

----------------------------------------------------------------------------
(* search_jobs (lines 228-255): one task per term on a thread pool, the    *)
(* results collected as the tasks complete.                                 *)
(* A dict is a sequence of entries in insertion order.                      *)

\* min(8, len(search_terms)), line 242
MaxWorkersCap == 8

Min(a, b) == IF a <= b THEN a ELSE b

DictHas(d, key) == \E i \in 1..Len(d) : d[i].key = key

\* d.get(key, default)
DictGet(d, key, default) ==
    IF DictHas(d, key)
    THEN d[CHOOSE i \in 1..Len(d) : d[i].key = key].value
    ELSE default

\* d[key] = value: a new key goes last, a known key keeps its place.
DictSet(d, key, value) ==
    IF DictHas(d, key)
    THEN [i \in 1..Len(d) |-> IF d[i].key = key THEN [key |-> key, value |-> value]
                                                ELSE d[i]]
    ELSE Append(d, [key |-> key, value |-> value])

\* The search without the test of line 239.
NoTerms_ignored(search_terms) == FALSE

\* not search_terms, line 239
NoTerms(search_terms) == search_terms = <<>>

\* The mapping as the tasks completed, not rebuilt in the order of the terms.
OrderedResults_as_completed(results, search_terms) == results

RECURSIVE OrderedResults(_, _)
\* Line 254: {term: results.get(term, []) for term in search_terms}
OrderedResults(results, search_terms) ==
    IF search_terms = <<>>
    THEN <<>>
    ELSE LET n == Len(search_terms)
             term == search_terms[n]
         IN  DictSet(OrderedResults(results, SubSeq(search_terms, 1, n - 1)),
                     term, DictGet(results, term, <<>>))

\* The pool with a worker for every term.
MaxWorkers_per_term(search_terms) == Len(search_terms)

\* Line 242: max_workers = min(8, len(search_terms))
MaxWorkers(search_terms) == Min(MaxWorkersCap, Len(search_terms))

\* The tasks of the pool that run: started and not ended.
Running == {i \in 1..search.started : fetch[i].pc \notin {"returned", "raised"}}

\* The futures that are done.
Done == {i \in 1..search.started : fetch[i].pc \in {"returned", "raised"}}

\* scraper.search_jobs(search_terms, zip_code, radius), lines 237-248: no
\* terms, no work; else the pool is made and one task per term submitted.
\* (ThreadPoolExecutor raises ValueError for max_workers = 0.)
SearchJobs(search_terms, zip_code, radius) ==
    /\ scraper.exists
    /\ search.pc = "idle"
    /\ search' =
          LET called == [search EXCEPT !.search_terms = search_terms,
                                       !.zip_code = zip_code, !.radius = radius]
              max_workers == MaxWorkers(search_terms)
          IN  IF NoTerms(search_terms)
              THEN [called EXCEPT !.pc = "returned", !.ret = <<>>]
              ELSE IF max_workers <= 0
              THEN [called EXCEPT !.pc = "raised", !.pool = TRUE]
              ELSE [called EXCEPT !.pc = "running", !.pool = TRUE,
                                  !.max_workers = max_workers]
    /\ UNCHANGED <<storeVars, toolVars, scraper, parser, http, sleep_calls, fetch, page>>

\* A worker of the pool takes the next submitted task and enters
\* _search_single_term (lines 228-233).
StartTask ==
    /\ search.pc = "running"
    /\ search.started < Len(search.search_terms)
    /\ Cardinality(Running) < search.max_workers
    /\ LET i == search.started + 1
           url == build_search_url(search.search_terms[i], search.zip_code,
                                   search.radius)
       IN  /\ fetch' = [fetch EXCEPT ![i] = Entered(scraper, 1, url)]
           /\ search' = [search EXCEPT !.started = i]
    /\ UNCHANGED <<storeVars, toolVars, scraper, parser, http, sleep_calls, page>>

\* Lines 250-252: as_completed hands out a future that is done;
\* future.result() returns (term, jobs) or raises what the task raised.
Collect(i) ==
    /\ search.pc = "running"
    /\ i \in Done \ search.collected
    /\ search' =
          IF fetch[i].raised
          THEN [search EXCEPT !.pc = "raised"]
          ELSE [search EXCEPT
                  !.collected = @ \cup {i},
                  !.results = DictSet(@, fetch[i].url.term, fetch[i].ret)]
    /\ UNCHANGED <<storeVars, toolVars, scraper, parser, http, sleep_calls, fetch, page>>

\* Lines 254-255: every future is collected, the mapping is returned.
SearchReturn ==
    /\ search.pc = "running"
    /\ search.collected = 1..Len(search.search_terms)
    /\ search' = [search EXCEPT
                    !.pc = "returned",
                    !.ret = OrderedResults(search.results, search.search_terms)]
    /\ UNCHANGED <<storeVars, toolVars, scraper, parser, http, sleep_calls, fetch, page>>

\* The term lists searched.
Terms == {"fraud", "data"}
TermLists == UNION {[1..k -> Terms] : k \in 0..MaxTerms}

\* The client of the searches: StepstoneJobScraper(min_delay=1, max_delay=1,
\* max_retries=2, backoff_factor=2, user_agents=("UA-1", "UA-2")).
SearchScraper == StepstoneJobScraper(1, 1, 2, 2, AgentSeq(<<"UA-1", "UA-2">>))

InitSearch ==
    /\ sessions = <<>>
    /\ now = 0
    /\ issued = <<>>
    /\ last = Obs("none")
    /\ call = NoCall
    /\ scraper = SearchScraper
    /\ parser = NoParser
    /\ http = <<>>
    /\ sleep_calls = <<>>
    /\ fetch = [w \in Slots |-> NoFetch]
    /\ search = NoSearch
    /\ page = NoPage
    /\ NothingHandled

NextSearch ==
    \/ \E search_terms \in TermLists : SearchJobs(search_terms, "40210", 5)
    \/ StartTask
    \/ \E w \in 1..MaxTerms : Throttle(w)
    \/ \E w \in 1..MaxTerms : Request(w)
    \/ \E w \in 1..MaxTerms : Backoff(w)
    \/ \E i \in 1..MaxTerms : Collect(i)
    \/ SearchReturn

SpecSearch == InitSearch /\ [][NextSearch]_vars

----------------------------------------------------------------------------
(* The claims about search_jobs.                                           *)

\* No term occurs twice.
Distinct(search_terms) ==
    \A i, j \in 1..Len(search_terms) :
        search_terms[i] = search_terms[j] => i = j

\* C11: whatever the order in which the fetches of a list of distinct terms
\* complete, the mapping search_jobs returns has the terms as its keys in
\* the order of the list, each with the result of the fetch of that term.
C11_TermOrder ==
    (search.pc = "returned" /\ Distinct(search.search_terms)) =>
        /\ Len(search.ret) = Len(search.search_terms)
        /\ \A i \in 1..Len(search.search_terms) :
              /\ search.ret[i].key = search.search_terms[i]
              /\ search.ret[i].value = fetch[i].ret

\* Two terms, the fetch of the second collected first, both with listings.
C11_Witness ==
    /\ search.pc = "returned"
    /\ search.search_terms = <<"fraud", "data">>
    /\ search.results[1].key = "data"
    /\ fetch[1].ret # <<>> /\ fetch[2].ret # <<>>
    /\ fetch[1].ret # fetch[2].ret

\* The fetch ended in a failure: the last allowed attempt failed on the
\* network, or an attempt raised something else.
Failed(this) ==
    /\ this.pc \in {"returned", "raised"}
    /\ this.outcomes # <<>>
    /\ this.outcomes[Len(this.outcomes)] \in {"RequestException", "Exception"}

\* What the page of a fetch that did not fail holds.
Fetched(this) ==
    IF this.outcomes # <<>> /\ this.outcomes[Len(this.outcomes)] = "ok"
    THEN ListingOf(this.url)
    ELSE <<>>

\* C12: a fetch that fails, on the network after the retries or with any
\* other exception, raises nothing; search_jobs raises nothing, maps the
\* term of a failed fetch to the empty list and every other term (of a list
\* of distinct terms) to what its own fetch found.
C12_PartialFailure ==
    /\ search.pc # "raised"
    /\ \A w \in 1..MaxTerms : ~fetch[w].raised
    /\ (search.pc = "returned" /\ Distinct(search.search_terms)) =>
          /\ Len(search.ret) = Len(search.search_terms)
          /\ \A i \in 1..Len(search.search_terms) :
                /\ search.ret[i].key = search.search_terms[i]
                /\ search.ret[i].value = IF Failed(fetch[i]) THEN <<>>
                                         ELSE Fetched(fetch[i])

\* One term failed with an exception that is not a network failure, the
\* other one was found.
C12_Witness ==
    /\ search.pc = "returned"
    /\ search.search_terms = <<"fraud", "data">>
    /\ fetch[1].outcomes = <<"Exception">>
    /\ fetch[2].outcomes = <<"RequestException", "ok">>
    /\ search.ret = <<[key |-> "fraud", value |-> <<>>],
                      [key |-> "data",
                       value |-> ListingOf(build_search_url("data", "40210", 5))]>>

\* C13: search_jobs of no terms returns the empty mapping, makes no pool,
\* starts no task and sends no request.
C13_NoTerms ==
    (search.pc # "idle" /\ search.search_terms = <<>>) =>
        /\ search.pc = "returned"
        /\ search.ret = <<>>
        /\ ~search.pool
        /\ search.started = 0
        /\ \A w \in Slots : fetch[w] = NoFetch
        /\ http = <<>>
        /\ sleep_calls = <<>>

C13_Witness ==
    /\ search.pc = "returned"
    /\ search.search_terms = <<>>
    /\ search.ret = <<>>

----------------------------------------------------------------------------
(* The claims about the fetch client.                                      *)

\* The fetch client alone, every step of a call taken when it can be: a
\* sleep ends, and a request returns or fails within its timeout.
SpecFetchLive ==
    /\ SpecFetch
    /\ WF_vars(Throttle(0)) /\ WF_vars(Request(0)) /\ WF_vars(Backoff(0))

\* The identifiers of the requests sent, in order.
AgentsSent == [k \in 1..Len(http) |-> http[k].agent]

\* C14: the k-th request of a client built with the pool u1..un, counting
\* every attempt of every fetch call, carries u[((k-1) mod n) + 1]; each
\* attempt takes one identifier.
C14_RoundRobin ==
    scraper.exists =>
        LET pool == scraper.agents
            n == Len(pool)
        IN  /\ (scraper.given.user_agents.kind = "seq"
                    /\ scraper.given.user_agents.v # <<>>)
                  => pool = scraper.given.user_agents.v
            /\ scraper.drawn = Len(http)
            /\ \A k \in 1..Len(http) : http[k].agent = pool[((k - 1) % n) + 1]

\* A pool of two: two failures and a success use u1, u2, u1, and the next
\* call goes on with u2.
C14_Witness ==
    /\ scraper.given.user_agents = AgentSeq(<<"UA-1", "UA-2">>)
    /\ fetch[0].n = 2 /\ fetch[0].pc = "returned"
    /\ AgentsSent = <<"UA-1", "UA-2", "UA-1", "UA-2">>

RECURSIVE ExpectedSteps(_, _, _)
\* The steps of a call whose attempts from the i-th on ended in outcomes:
\* before each request a throttle, and a backoff after each attempt that
\* failed on the network and is not the last one allowed.
ExpectedSteps(outcomes, max_retries, i) ==
    IF i > Len(outcomes)
    THEN <<>>
    ELSE <<"throttle", "request">>
         \o (IF outcomes[i] = "RequestException" /\ i < max_retries
             THEN <<"backoff">> ELSE <<>>)
         \o ExpectedSteps(outcomes, max_retries, i + 1)

\* The number of the attempt the k-th step of a trace belongs to.
AttemptOf(trace, k) == Cardinality({j \in 1..k : trace[j].e = "throttle"})

\* The steps of a call are those expected, and each backoff is computed as
\* min_delay * backoff_factor^i after attempt i.
StepsAsExpected(this) ==
    /\ [k \in 1..Len(this.trace) |-> this.trace[k].e]
            = ExpectedSteps(this.outcomes, scraper.max_retries, 1)
    /\ \A k \in 1..Len(this.trace) :
            this.trace[k].e = "backoff" =>
                this.trace[k].d = scraper.min_delay
                                    * Pow(scraper.backoff_factor, AttemptOf(this.trace, k))

\* The sleeps of the steps of a trace that slept.
RECURSIVE SleptOf(_, _)
SleptOf(trace, w) ==
    IF trace = <<>>
    THEN <<>>
    ELSE LET step == trace[Len(trace)]
             before == SleptOf(SubSeq(trace, 1, Len(trace) - 1), w)
         IN  IF step.slept
             THEN Append(before, Sleep(w, IF step.e = "throttle" THEN "jitter"
                                          ELSE "backoff", step.d))
             ELSE before

\* C15 as stated: the sleeps of a call are jitter, backoff(1), jitter,
\* backoff(2), ..., jitter: one sleep for the throttle before each attempt
\* and one of min_delay * backoff_factor^i after each failed attempt i but
\* the last allowed, none after a success or the final failure.
C15_SleepsUnconditional ==
    fetch[0].pc = "returned" =>
        /\ StepsAsExpected(fetch[0])
        /\ \A k \in 1..Len(fetch[0].trace) :
                fetch[0].trace[k].e \in {"throttle", "backoff"}
                    => fetch[0].trace[k].slept
        /\ fetch[0].sleeps = SleptOf(fetch[0].trace, 0)

\* C15, amended: the same sequence, where a throttle delay of zero and a
\* backoff of zero are not slept.
C15_SleepPattern ==
    fetch[0].pc = "returned" =>
        /\ StepsAsExpected(fetch[0])
        /\ \A k \in 1..Len(fetch[0].trace) :
                fetch[0].trace[k].e \in {"throttle", "backoff"}
                    => (fetch[0].trace[k].slept <=> fetch[0].trace[k].d > 0)
        /\ fetch[0].sleeps = SleptOf(fetch[0].trace, 0)

\* Two failures, then a success: jitter, backoff(1), jitter, backoff(2),
\* jitter, with delays of 1 unit and the factor 2.
C15_Witness ==
    /\ fetch[0].pc = "returned"
    /\ fetch[0].outcomes = <<"RequestException", "RequestException", "ok">>
    /\ fetch[0].sleeps = <<Sleep(0, "jitter", 1), Sleep(0, "backoff", 2),
                           Sleep(0, "jitter", 1), Sleep(0, "backoff", 4),
                           Sleep(0, "jitter", 1)>>

\* The attempts of a call that failed on the network.
Transient(this) ==
    {i \in 1..Len(this.outcomes) : this.outcomes[i] = "RequestException"}

\* A call never is past its last allowed attempt; a call that returned has
\* sent min(j, max_retries) requests, j being its first attempt that did not
\* fail on the network, and has returned [] when all max_retries failed.
BoundedRetries ==
    LET this == fetch[0]
        sent == Len(this.requests)
    IN  /\ sent <= Max(scraper.max_retries, 0)
        /\ Len(this.outcomes) <= sent
        /\ this.pc = "returned" =>
              /\ Len(this.outcomes) = sent
              /\ \A i \in 1..(sent - 1) : i \in Transient(this)
              /\ IF sent > 0 /\ sent \notin Transient(this)
                 THEN sent <= scraper.max_retries
                 ELSE sent = Max(scraper.max_retries, 0) /\ this.ret = <<>>

\* C16: the retry loop is bounded and ends: whatever attempts fail, a call
\* sends min(j, max_retries) requests, j its first attempt that does not
\* fail, never more than max_retries, returns [] when all fail, and returns.
C16_Terminates ==
    /\ []BoundedRetries
    /\ (fetch[0].pc \in {"throttle", "request", "backoff"})
            ~> (fetch[0].pc = "returned")

\* All of three allowed attempts failed.
C16_Witness ==
    /\ fetch[0].pc = "returned"
    /\ scraper.max_retries = 3
    /\ fetch[0].outcomes = <<"RequestException", "RequestException",
                             "RequestException">>
    /\ Len(fetch[0].requests) = 3
    /\ fetch[0].ret = <<>>

\* The constructor was called with a pool that has no identifier.
EmptyPool(user_agents) == user_agents.kind \in {"seq", "iter"} /\ user_agents.v = <<>>

\* The constructor was called with a configuration that is not valid.
InvalidConfig(given) ==
    \/ given.min_delay < 0
    \/ given.max_delay < 0
    \/ given.max_delay < given.min_delay
    \/ EmptyPool(given.user_agents)

\* The constructor has been called.
Constructed == scraper.exists \/ scraper.raised # "none"

\* C18: a negative min_delay or max_delay, max_delay < min_delay, or an
\* empty identifier pool make the constructor raise: no client with such a
\* configuration exists, and no request is sent with it.
C18_RejectsInvalid ==
    (Constructed /\ InvalidConfig(scraper.given)) =>
        /\ ~scraper.exists
        /\ scraper.raised # "none"
        /\ http = <<>>

\* A throttle step of a call draws a delay d within the window and sleeps
\* it unless it is 0.
ThrottleWithin(step) ==
    /\ scraper.min_delay <= step.d /\ step.d <= scraper.max_delay
    /\ step.slept <=> step.d > 0

\* Each request of a call comes right after a throttle step of its own.
ThrottleBeforeEachRequest(this) ==
    \A k \in 1..Len(this.trace) :
        /\ this.trace[k].e = "request" => (k > 1 /\ this.trace[k - 1].e = "throttle")
        /\ (this.trace[k].e = "throttle" /\ k < Len(this.trace))
                => this.trace[k + 1].e = "request"

\* C19 as stated: before every request attempt one throttle delay d with
\* min_delay <= d <= max_delay is applied, except that a window of no width
\* (min_delay = max_delay) performs no sleep at all.
C19_ZeroWidthNoSleep ==
    /\ ThrottleBeforeEachRequest(fetch[0])
    /\ \A k \in 1..Len(fetch[0].trace) :
          fetch[0].trace[k].e = "throttle" =>
              IF scraper.min_delay = scraper.max_delay
              THEN ~fetch[0].trace[k].slept
              ELSE ThrottleWithin(fetch[0].trace[k])

\* C19, amended: before every request attempt one throttle delay d with
\* min_delay <= d <= max_delay is applied, slept unless d = 0; a window of no
\* width sleeps min_delay, and nothing only when max_delay = 0.
C19_Throttle ==
    /\ ThrottleBeforeEachRequest(fetch[0])
    /\ \A k \in 1..Len(fetch[0].trace) :
          fetch[0].trace[k].e = "throttle" => ThrottleWithin(fetch[0].trace[k])
    /\ \A k \in 1..Len(sleep_calls) : sleep_calls[k].d > 0

\* A window of no width, of 1 unit, was slept before a request.
C19_Witness ==
    /\ scraper.min_delay = 1 /\ scraper.max_delay = 1
    /\ Len(fetch[0].trace) >= 2
    /\ fetch[0].trace[1] = Step("throttle", 1, TRUE)
    /\ fetch[0].trace[2].e = "request"

----------------------------------------------------------------------------
(* The detail page: JobDetailParser, fetch_job_page and parse_job_details   *)
(* (src/job_detail_parser.py, lines 15-116).                                *)
(* The text of an exception is the sequence of the parts it is made of.     *)

\* The calls of the parser in one run.
MaxPageCalls == 3

\* requests.get(url, headers=self.headers, timeout=15), line 24
page_timeout == 15

\* The texts of the exceptions that come up.
Causes == {"temporary error", "failure"}

\* The keyword arguments of a constructor call: none, or those of a fetch
\* client (min_delay, max_delay, max_retries, backoff_factor, user_agents).
NoKwargs == [given |-> FALSE, config |-> NoConfig]
Kwargs(config) == [given |-> TRUE, config |-> config]

\* JobDetailParser.__init__(self), lines 18-19: it takes no argument, so a
\* call with keyword arguments raises TypeError.
JobDetailParser(kwargs) ==
    IF kwargs.given
    THEN [NoParser EXCEPT !.raised = "TypeError"]
    ELSE [NoParser EXCEPT
            !.exists = TRUE,
            !.headers = "Mozilla/5.0 (Windows NT 10.0; Win64; x64) AppleWebKit/537.36"]

\* fetch_job_page (lines 21-29) once the request has ended: the body, or
\* NetworkError with the text of the failure.
fetch_job_page(this, outcome, cause) ==
    IF outcome = "RequestException"
    THEN [this EXCEPT !.pc = "raised", !.failed = "fetch", !.cause = cause,
                      !.raised = "NetworkError",
                      !.message = <<"Failed to fetch job page: ", cause>>]
    ELSE [this EXCEPT !.pc = "fetched", !.ret = "html"]

\* Lines 111-116: whatever is raised inside parse_job_details, by the fetch
\* or while the record is built, is raised again as PageParseError with
\* str(e) in its text.
Wrapped(this, failed, text) ==
    [this EXCEPT !.pc = "raised", !.failed = failed,
                 !.raised = "PageParseError",
                 !.message = <<"Failed to parse job details: ">> \o text]

\* parser = JobDetailParser(...)
ConstructParser(kwargs) ==
    /\ ~parser.exists
    /\ page.pc = "idle"
    /\ parser' = JobDetailParser(kwargs)
    /\ page' = [page EXCEPT !.op = "JobDetailParser", !.kwargs = kwargs]
    /\ UNCHANGED <<storeVars, toolVars, scraper, http, sleep_calls, fetch, search>>

\* parser.fetch_job_page(url) or parser.parse_job_details(url) is called.
CallParser(op, url) ==
    /\ parser.exists
    /\ page.pc \in {"idle", "returned", "raised"}
    /\ page.n < MaxPageCalls
    /\ page' = [NoPage EXCEPT !.pc = "request", !.n = page.n + 1, !.op = op,
                              !.url = url, !.kwargs = page.kwargs]
    /\ UNCHANGED <<storeVars, toolVars, scraper, parser, http, sleep_calls, fetch, search>>

\* Lines 24-29 (and 35): the request is sent and ends; inside
\* parse_job_details the NetworkError is caught by line 111.
PageRequest ==
    /\ page.pc = "request"
    /\ LET sent == [by |-> "fetch_job_page", w |-> 0, url |-> page.url,
                    agent |-> parser.headers, timeout |-> page_timeout]
           asked == [page EXCEPT !.requests = Append(@, sent)]
       IN  /\ http' = Append(http, sent)
           /\ \E outcome \in {"ok", "RequestException"}, cause \in Causes :
                LET r == fetch_job_page(asked, outcome, cause)
                IN  page' = IF page.op = "fetch_job_page"
                            THEN IF r.pc = "fetched"
                                 THEN [r EXCEPT !.pc = "returned"]
                                 ELSE r
                            ELSE IF r.pc = "raised"
                                 THEN [Wrapped(r, "fetch", r.message)
                                         EXCEPT !.cause = cause]
                                 ELSE r
    /\ UNCHANGED <<storeVars, toolVars, scraper, parser, sleep_calls, fetch, search>>

\* Lines 36-116: the fields are extracted and the JobDetails record is
\* built, or something raises on the way.
BuildDetails ==
    /\ page.pc = "fetched"
    /\ page.op = "parse_job_details"
    /\ \E outcome \in {"ok", "Exception"}, cause \in Causes :
          page' = IF outcome = "ok"
                  THEN [page EXCEPT !.pc = "returned", !.ret = "JobDetails"]
                  ELSE [Wrapped(page, "build", <<cause>>) EXCEPT !.cause = cause]
    /\ UNCHANGED <<storeVars, toolVars, scraper, parser, http, sleep_calls, fetch, search>>

\* The keyword arguments tried: none, and those of the repository's test of
\* fetch_job_page (delays of one unit, two attempts, two identifiers).
KwargsTried ==
    { NoKwargs,
      Kwargs([min_delay |-> 1, max_delay |-> 1, max_retries |-> 2,
              backoff_factor |-> 2,
              user_agents |-> AgentSeq(<<"UA-1", "UA-2">>)]) }

PageUrls == {"https://example.com/job", "https://www.stepstone.de/job/123"}

NextPage ==
    \/ \E kwargs \in KwargsTried : ConstructParser(kwargs)
    \/ \E op \in {"fetch_job_page", "parse_job_details"}, url \in PageUrls :
            CallParser(op, url)
    \/ PageRequest
    \/ BuildDetails

SpecPage == Init /\ [][NextPage]_vars

----------------------------------------------------------------------------
(* The claims about the detail page.                                       *)

\* The parts of a text.
Parts(message) == {message[k] : k \in 1..Len(message)}

\* The sleeps of a fetch of max_retries attempts that all fail: a throttle
\* sleep before each, a backoff after each but the last.
RECURSIVE FailingSleeps(_, _)
FailingSleeps(config, i) ==
    IF i > config.max_retries
    THEN <<>>
    ELSE <<Sleep(0, "jitter", config.min_delay)>>
         \o (IF i < config.max_retries
             THEN <<Sleep(0, "backoff",
                          config.min_delay * Pow(config.backoff_factor, i))>>
             ELSE <<>>)
         \o FailingSleeps(config, i + 1)

\* C17: the detail-page fetch retries like the listing fetch.  A parser can
\* be built with max_retries = N, delays and a pool of identifiers, and when
\* every attempt fails on the network its fetch_job_page sends N requests
\* with the identifiers in pool order, sleeps jitter, backoff(1), jitter, ...
\* with no backoff after the last attempt, and raises NetworkError; it never
\* returns an empty body.
C17_DetailRetries ==
    /\ (page.op = "JobDetailParser" /\ page.kwargs.given) => parser.exists
    /\ (page.op = "fetch_job_page" /\ page.failed = "fetch") =>
          LET config == page.kwargs.config
              pool == config.user_agents.v
          IN  /\ page.pc = "raised" /\ page.raised = "NetworkError"
              /\ page.kwargs.given =>
                    /\ Len(page.requests) = config.max_retries
                    /\ \A k \in 1..Len(page.requests) :
                          page.requests[k].agent = pool[((k - 1) % Len(pool)) + 1]
                    /\ page.sleeps = FailingSleeps(config, 1)

\* C20: of the failures of parse_job_details, a network failure while the
\* page is fetched reaches the caller as NetworkError, and an exception
\* raised while the record is built as PageParseError with the text of the
\* exception and the URL; nothing else leaves the call.
C20_Classified ==
    (page.op = "parse_job_details" /\ page.pc = "raised") =>
        /\ page.raised \in {"NetworkError", "PageParseError"}
        /\ page.failed = "fetch" => page.raised = "NetworkError"
        /\ page.failed = "build" =>
              /\ page.raised = "PageParseError"
              /\ page.cause \in Parts(page.message)
              /\ page.url \in Parts(page.message)

----------------------------------------------------------------------------
(* Part 3.  handle_call_tool (src/stepstone_server.py, lines 364-628).      *)
(* The handler is a coroutine on the event loop: between two awaits (lines  *)
(* 397 and 544) nothing else runs on the loop, the clock may move.  The     *)
(* work handed to asyncio.to_thread runs in a thread while the handler      *)
(* awaits it.                                                               *)
(* A search term is a string, as the sequence of its characters, or a       *)
(* value of another type.                                                   *)

\* The searches of one run that get as far as a session, and the detail
\* pages requested in one run.
MaxSearches == 1
MaxDetailFetches == 1

\* The terms of the requests: a word, another word, a blank, and values that
\* are no strings (123 and b"x").
Fraud == Str(<<"f", "r", "a", "u", "d">>)
Betrug == Str(<<"b", "e", "t", "r", "u", "g">>)
Compliance == Str(<<"c", "o", "m", "p", "l", "i", "a", "n", "c", "e">>)
Blank == Str(<<" ">>)
IntTerm == NonStr("int")
BytesTerm == NonStr("bytes")

\* An argument that is a list or a string, something of another type, or
\* left out.
ListArg(v) == [kind |-> "list", v |-> v]
StrArg(v) == [kind |-> "str", v |-> v]
OtherTyped == [kind |-> "other", v |-> <<>>]
LeftOut == [kind |-> "missing", v |-> <<>>]

\* arguments.get(key, default), lines 371-373
GetOr(arg, default) == IF arg.kind \in {"missing", "none"} THEN default ELSE arg

\* urllib.parse.quote(term), line 225: a str or bytes is encoded, any other
\* value raises TypeError.
QuoteRaises(term) == term.kind \notin {"str", "bytes"}

\* ', '.join(search_terms), line 440: TypeError unless every item is a str.
JoinRaises(search_terms) ==
    \E i \in 1..Len(search_terms) : search_terms[i].kind # "str"

\* The jobs of the first term of the mapping only.
AllJobs_first_term(results) ==
    IF results = <<>> THEN <<>> ELSE results[1].value

\* Lines 405-407: the jobs of all terms, in the order of the mapping.
RECURSIVE AllJobs(_)
AllJobs(results) ==
    IF results = <<>> THEN <<>>
    ELSE results[1].value \o AllJobs(Tail(results))

\* What the tasks of search_jobs collect when the page of each term holds
\* found[term] (lines 244-252).
RECURSIVE Gathered(_, _)
Gathered(search_terms, found) ==
    IF search_terms = <<>> THEN <<>>
    ELSE LET n == Len(search_terms)
         IN  DictSet(Gathered(SubSeq(search_terms, 1, n - 1), found),
                     search_terms[n], found[search_terms[n]])

\* REQUEST_TIMEOUT of the environment, in seconds, as the repository's tests
\* of the timeouts set it.
REQUEST_TIMEOUT == 1

\* config_utils.get_operation_timeout (src/config_utils.py, lines 39-45), in
\* ticks: the request timeout less a buffer of 1.5 seconds, and at least one
\* second.
get_operation_timeout(seconds) ==
    LET buffer == (3 * TicksPerSec) \div 2
        fallback == TicksPerSec
        first == seconds * TicksPerSec - buffer
        candidate == IF first < fallback
                     THEN Min(seconds * TicksPerSec, fallback)
                     ELSE first
    IN  Max(candidate, TicksPerSec)

\* The handler without its validation of lines 376-392.
Validate_nothing(search_terms, zip_code, radius) == "ok"

\* Lines 376-392: the error text of the first test that fails.
Validate(search_terms, zip_code, radius) ==
    IF search_terms.kind # "list" \/ search_terms.v = <<>>
    THEN "Error: search_terms must be a non-empty list of strings"
    ELSE IF zip_code.kind # "str" \/ Len(zip_code.v) # 5
    THEN "Error: zip_code must be a 5-digit German postal code string"
    ELSE IF radius.kind # "int" \/ radius.v < 1 \/ radius.v > 100
    THEN "Error: radius must be an integer between 1 and 100"
    ELSE "ok"

\* Lines 369-402: the arguments are read and validated, and the search is
\* handed to a thread.
SearchJobsTool(arguments) ==
    /\ tool.pc = "idle"
    /\ search.pc = "idle"
    /\ Len(issued) < MaxSearches
    /\ LET search_terms == GetOr(arguments.search_terms,
                                 ListArg(<<Fraud, Betrug, Compliance>>))
           zip_code == GetOr(arguments.zip_code, StrArg("40210"))
           radius == GetOr(arguments.radius, IntArg(5))
           text == Validate(search_terms, zip_code, radius)
       IN  IF text # "ok"
           THEN /\ tool' = [NoTool EXCEPT !.pc = "done", !.response = text]
                /\ UNCHANGED search
           ELSE /\ tool' = [NoTool EXCEPT !.pc = "awaiting",
                                          !.search_terms = search_terms.v,
                                          !.zip_code = zip_code.v,
                                          !.radius = radius.v,
                                          !.t_awaited = now]
                /\ search' = [NoSearch EXCEPT !.pc = "submitted",
                                              !.search_terms = search_terms.v,
                                              !.zip_code = zip_code.v,
                                              !.radius = radius.v]
    /\ UNCHANGED <<sessions, now, issued, last, call, scraper, parser, http,
                   sleep_calls, fetch, page, threads, listing, stdio>>

\* What the listing page of a term may hold.
ListingChoices == { <<>>, <<J1, J2>> }

\* scraper.search_jobs runs in its thread (lines 235-255) and ends: it
\* returns the mapping, or raises what build_search_url raised for a term
\* (or what the pool raised).  Its steps are those of SpecSearch.
SearchJobsRun(outcome) ==
    /\ search.pc = "submitted"
    /\ \E found \in [{search.search_terms[i] : i \in 1..Len(search.search_terms)}
                        -> ListingChoices] :
          search' =
             IF outcome = "RuntimeError"
             THEN [search EXCEPT !.pc = "raised", !.error = <<"network down">>]
             ELSE IF \E i \in 1..Len(search.search_terms) :
                           QuoteRaises(search.search_terms[i])
             THEN [search EXCEPT !.pc = "raised",
                                 !.error = <<"quote_from_bytes() expected bytes">>]
             ELSE [search EXCEPT
                     !.pc = "returned",
                     !.ret = OrderedResults(Gathered(search.search_terms, found),
                                            search.search_terms)]
    /\ UNCHANGED <<storeVars, scraper, parser, http, sleep_calls, fetch, page,
                   tool, threads, listing, stdio>>

\* The handler without its try: what is raised leaves handle_call_tool.
Caught_propagates(response, error) ==
    [response |-> "raised", error |-> error]

\* Lines 461-466 and 621-626: except Exception as e gives the text
\* f"Error ...: {str(e)}".
Caught(response, error) == [response |-> response, error |-> error]

\* Lines 397-459: the search has ended.  Its results become a session, and
\* the response is put together; what is raised on the way is caught.
SearchJobsAwaited ==
    /\ tool.pc = "awaiting"
    /\ search.pc \in {"returned", "raised"}
    /\ LET waited == now - tool.t_awaited
           all_jobs == AllJobs(search.ret)
           given == [results |-> all_jobs, search_terms |-> Some(tool.search_terms),
                     zip_code |-> tool.zip_code, radius |-> tool.radius]
           r == create_session(sessions, now, uuid4, all_jobs,
                               Some(tool.search_terms), tool.zip_code, tool.radius)
           failed == Caught("Error performing job search", search.error)
           unjoined == Caught("Error performing job search",
                              <<"expected str instance">>)
       IN  IF search.pc = "raised"
           THEN /\ tool' = [tool EXCEPT !.pc = "done", !.waited = waited,
                                        !.response = failed.response,
                                        !.error = failed.error]
                /\ last' = Obs("search_jobs")
                /\ UNCHANGED <<sessions, issued>>
           ELSE /\ sessions' = r.sessions
                /\ issued' = Append(issued, [t |-> now, given |-> given])
                /\ last' = [Obs("create_session") EXCEPT !.t = now, !.sid = r.ret,
                                                         !.given = given]
                /\ tool' = IF JoinRaises(tool.search_terms)
                           THEN [tool EXCEPT !.pc = "done", !.waited = waited,
                                             !.all_jobs = all_jobs,
                                             !.session = r.ret, !.created = TRUE,
                                             !.response = unjoined.response,
                                             !.error = unjoined.error]
                           ELSE [tool EXCEPT !.pc = "done", !.waited = waited,
                                             !.all_jobs = all_jobs,
                                             !.session = r.ret, !.created = TRUE,
                                             !.response = "Job Search Summary",
                                             !.total_jobs = Len(all_jobs)]
    /\ UNCHANGED <<now, call, scraper, parser, http, sleep_calls, fetch, search,
                   page, threads, listing, stdio>>

\* The response of search_jobs is returned.
SearchJobsReturn ==
    /\ tool.pc = "done"
    /\ tool' = NoTool
    /\ search' = NoSearch
    /\ UNCHANGED <<storeVars, scraper, parser, http, sleep_calls, fetch, page,
                   threads, listing, stdio>>

\* job['link'], line 544: the subscript raises for an entry that is no dict
\* (TypeError) and for a dict without the key (KeyError).
HasLink(job) == job.isdict /\ job.link # 0

\* The URL a stored link stands for.
JobUrl(link) ==
    CASE link = 1 -> "https://www.stepstone.de/stellenangebote--a-B--1-inline.html"
      [] link = 2 -> "https://www.stepstone.de/stellenangebote--B--2-inline.html"
      [] OTHER -> "https://www.stepstone.de/stellenangebote--3-inline.html"

\* Lines 543-544: the parser is made and parse_job_details is handed to a
\* thread with the link of the job.
GetJobDetailsParse ==
    /\ call.pc = "parse"
    /\ Len(http) < MaxDetailFetches
    /\ LET failed == Caught("Error retrieving job details", <<"'link'">>)
       IN  IF HasLink(call.job)
           THEN /\ call' = [call EXCEPT !.pc = "awaiting", !.t_awaited = now]
                /\ parser' = JobDetailParser(NoKwargs)
                /\ page' = [NoPage EXCEPT !.pc = "request", !.n = 1,
                                          !.op = "parse_job_details",
                                          !.url = JobUrl(call.job.link)]
           ELSE /\ call' = [call EXCEPT !.pc = "done",
                                        !.response = failed.response,
                                        !.error = failed.error]
                /\ parser' = JobDetailParser(NoKwargs)
                /\ UNCHANGED page
    /\ last' = Obs("get_job_details")
    /\ UNCHANGED <<sessions, now, issued, scraper, http, sleep_calls, fetch,
                   search, toolVars>>

\* Lines 544-626: parse_job_details has ended.  Its record is formatted, or
\* what it raised is caught.
GetJobDetailsAwaited ==
    /\ call.pc = "awaiting"
    /\ page.pc \in {"returned", "raised"}
    /\ LET waited == now - call.t_awaited
           failed == Caught("Error retrieving job details", page.message)
       IN  call' = IF page.pc = "raised"
                   THEN [call EXCEPT !.pc = "done", !.waited = waited,
                                     !.response = failed.response,
                                     !.error = failed.error]
                   ELSE [call EXCEPT !.pc = "done", !.waited = waited,
                                     !.response = "Job Details",
                                     !.details = page.ret]
    /\ last' = Obs("get_job_details")
    /\ UNCHANGED <<sessions, now, issued, fetchVars, toolVars>>

\* The arguments of the search_jobs requests.
SearchTermArgs ==
    { LeftOut, OtherTyped, ListArg(<<>>), ListArg(<<Fraud>>),
      ListArg(<<Fraud, Blank>>), ListArg(<<Blank, IntTerm>>),
      ListArg(<<BytesTerm>>), ListArg(<<Fraud, Fraud>>) }
ZipArgs == { [LeftOut EXCEPT !.v = ""], StrArg("101"), [OtherTyped EXCEPT !.v = ""] }
RadiusArgs == { NoArg, IntArg(0), IntArg(101), OtherArg }

SearchArguments ==
    [search_terms : SearchTermArgs, zip_code : ZipArgs, radius : RadiusArgs]

\* The arguments of the get_job_details requests.
DetailQueries == {None, Some(<<>>), Some(<<"z">>)}
DetailJobQueries == {None, Some(<<"a">>)}
DetailIndexes == {NoArg, OtherArg, IntArg(0), IntArg(2), IntArg(3)}

DetailArguments ==
    [query : DetailQueries, job_query : DetailJobQueries,
     session_id : ToolSessionIds, job_index : DetailIndexes]

\* The requests of the client come one after the other.
Alone == tool.pc = "idle" /\ call.pc = "idle"

NextHandler ==
    \/ Tick
    \/ \E arguments \in SearchArguments : Alone /\ SearchJobsTool(arguments)
    \/ \E outcome \in {"ok", "RuntimeError"} : SearchJobsRun(outcome)
    \/ SearchJobsAwaited
    \/ SearchJobsReturn
    \/ \E arguments \in DetailArguments : Alone /\ GetJobDetailsResolve(arguments)
    \/ GetJobDetailsLookup
    \/ GetJobDetailsParse
    \/ PageRequest
    \/ BuildDetails
    \/ GetJobDetailsAwaited
    \/ GetJobDetailsReturn

SpecHandler == Init /\ [][NextHandler]_vars

----------------------------------------------------------------------------
(* The claims about get_job_details.                                       *)

\* The request has a job_index within 1..len(results) of the session it
\* resolved.
IndexInRange ==
    /\ call.job_index.kind = "int"
    /\ call.resolved_session # NoSession
    /\ call.job_index.v \in 1..Len(call.resolved_session.results)

\* The lookup of lines 518-539 is behind the request.
LookedUp == call.pc \in {"parse", "awaiting", "done"}

NonEmpty(text) == text.some /\ text.v # <<>>

IndexBeyond ==
    /\ call.job_index.kind = "int"
    /\ call.resolved_session # NoSession
    /\ call.job_index.v > Len(call.resolved_session.results)

\* The request ended at the index, with no job selected and no page asked
\* for.
EndedAtIndex ==
    /\ call.pc = "done"
    /\ call.response = "No job found at the requested index"
    /\ call.job = NoJob
    /\ call.details = "none"

AbsentAtResolve(id) ==
    ~(id \in 1..call.n_resolved /\ ~ExpiredAt(issued[id].t, call.t_resolved))

\* The request got past the validation of its selectors.
Selected == call.pc # "idle" /\ ValidateSelectors(call.query, call.job_index) = "ok"

\* The request ended with the given text, with no session resolved, no job
\* selected and no page asked for.
EndedUnresolved(text) ==
    /\ call.pc = "done"
    /\ call.response = text
    /\ call.resolved_session = NoSession
    /\ call.job = NoJob
    /\ call.details = "none"

\* C26: get_job_details with a session_id that is unknown or expired answers
\* 'Session not found or expired', does not take the most recent session
\* instead, and fetches no page; with no session_id and no active session it
\* answers with a message and fetches no page.
C26_SessionNotFound ==
    Selected =>
        /\ (call.session_id.some /\ AbsentAtResolve(call.session_id.v)) =>
                EndedUnresolved("Session not found or expired")
        /\ (~call.session_id.some /\ LiveIds(call.t_resolved) \cap 1..call.n_resolved = {}) =>
                EndedUnresolved("No jobs available in the selected session")

\* An unknown session_id is refused while another session is active.
C26_Witness ==
    /\ Selected
    /\ call.pc = "done"
    /\ call.session_id.some
    /\ AbsentAtResolve(call.session_id.v)
    /\ LiveIds(call.t_resolved) \cap 1..call.n_resolved # {}
    /\ call.response = "Session not found or expired"

----------------------------------------------------------------------------
(* The claims about the two tools.                                         *)

\* The terms that are strings and not blank.
KeptTerms(search_terms) ==
    SelectSeq(search_terms, LAMBDA term : term.kind = "str" /\ Strip(term.s) # <<>>)

\* C24: the search_jobs tool drops blank and non-string terms before it
\* searches: when no term remains the response is 'search_terms must contain
\* at least one non-empty string' and neither the search nor create_session
\* is invoked; otherwise only the remaining terms are searched.
C24_NormalizesTerms ==
    (tool.pc # "idle" /\ tool.search_terms # <<>>) =>
        IF KeptTerms(tool.search_terms) = <<>>
        THEN /\ search.pc = "idle"
             /\ ~tool.created
             /\ tool.pc = "done"
             /\ tool.response = "Error: search_terms must contain at least one non-empty string"
        ELSE search.pc # "idle" =>
                \A i \in 1..Len(search.search_terms) :
                    InList(search.search_terms[i], KeptTerms(tool.search_terms))

\* The timeout of the awaited work, in ticks.
OperationTimeout == get_operation_timeout(REQUEST_TIMEOUT)

\* C25: the work off the loop is awaited with a timeout.  A search that has
\* not ended within the operation timeout is answered with the 'took too
\* long' text and creates no session; a detail fetch that has not ended
\* within it is answered with that text and returns no details.
C25_TimesOut ==
    /\ (tool.pc = "done" /\ tool.waited > OperationTimeout) =>
            /\ tool.response = "took too long to respond"
            /\ ~tool.created
    /\ (call.pc = "done" /\ call.waited > OperationTimeout) =>
            /\ call.response = "Fetching detailed information took too long"
            /\ call.details = "none"

\* No request has raised, a request that has ended has a text as response,
\* and a search that raised is answered with the error text of the tool,
\* the text of the exception in it, and no session.
Answered ==
    /\ tool.response # "raised"
    /\ call.response # "raised"
    /\ tool.pc = "done" => tool.response # "none"
    /\ call.pc = "done" => call.response # "none"
    /\ (tool.pc = "done" /\ search.pc = "raised") =>
            /\ tool.response = "Error performing job search"
            /\ tool.error = search.error
            /\ ~tool.created

\* C27: no failure crashes the handler.  Whatever the arguments of
\* search_jobs and get_job_details, and whatever fails in the search, the
\* fetch or the parse, nothing is raised out of handle_call_tool: a request
\* that has ended has one text as its response, and when the search or the
\* parser raised, the response is the error text of the tool with the text
\* of the exception in it.
C27_NoCrash ==
    /\ []Answered
    /\ [][GetJobDetailsAwaited =>
            /\ call'.pc = "done"
            /\ page.pc = "raised" =>
                    /\ call'.response = "Error retrieving job details"
                    /\ call'.error = page.message
            /\ page.pc = "returned" => call'.response = "Job Details"]_vars

\* The parser raised and the request ended with the error text of the tool,
\* the text of the exception in it.
C27_Witness ==
    /\ call.pc = "done"
    /\ page.pc = "raised"
    /\ call.response = "Error retrieving job details"
    /\ call.error = page.message
    /\ page.cause \in Parts(call.error)

----------------------------------------------------------------------------
(* The session store called from threads (src/session_manager.py).  The    *)
(* methods take no lock.  A thread runs a method as a sequence of steps,   *)
(* one operation of the dict (a membership test, a subscript, a del, a     *)
(* step of an iterator) to the step: the interpreter may switch threads    *)
(* between any two of them.  An iterator of the dict raises RuntimeError   *)
(* when it finds that the size of the dict has changed; here it walks the  *)
(* dict by position, and a subscript or del of a missing key raises        *)
(* KeyError.                                                               *)

\* What thread `this` is left as, with the store, after one step.
Stepped(this, store) == [this |-> this, sessions |-> store]

\* The method has returned.
Returns(this, found, session, ret) ==
    [this EXCEPT !.pc = "returned", !.found = found, !.session = session,
                 !.ret = ret]

\* The method is left by an exception.
Raises(this, exception) == [this EXCEPT !.pc = "raised", !.raised = exception]

\* After _cleanup_expired_sessions: create_session returns the id (line 53),
\* get_recent_session goes on to line 161, list_active_sessions to line 201.
AfterCleanup(this) ==
    IF this.op = "create_session"
    THEN Returns(this, TRUE, NoSession, <<this.sid>>)
    ELSE IF this.op = "get_recent_session"
    THEN [this EXCEPT !.pc = "empty"]
    ELSE [this EXCEPT !.pc = "keys"]

\* _cleanup_expired_sessions (lines 167-175), one step: the iterator over
\* self.sessions.items() is made, it yields the next item and the item is
\* tested, or the next expired session is deleted.
CleanupStep(this, store, t) ==
    IF this.pc = "iter"
    THEN Stepped([this EXCEPT !.pc = "next", !.size = Len(store), !.pos = 0,
                              !.expired = <<>>], store)
    ELSE IF this.pc = "next"
    THEN IF Len(store) # this.size
         THEN Stepped(Raises(this, "RuntimeError"), store)
         ELSE IF this.pos = this.size
         THEN Stepped(IF this.expired = <<>> THEN AfterCleanup(this)
                      ELSE [this EXCEPT !.pc = "delete"], store)
         ELSE LET session == store[this.pos + 1]
              IN  Stepped([this EXCEPT
                             !.pos = @ + 1,
                             !.expired = IF is_expired(session, t, session_timeout)
                                         THEN Append(@, session.session_id)
                                         ELSE @], store)
    ELSE LET session_id == Head(this.expired)
             rest == [this EXCEPT !.expired = Tail(@)]
         IN  IF ~HasKey(store, session_id)
             THEN Stepped(Raises(this, "KeyError"), store)
             ELSE Stepped(IF rest.expired = <<>> THEN AfterCleanup(rest) ELSE rest,
                          Del(store, session_id))

\* get_session (lines 65-73), one step: the membership test, the subscript
\* with the expiry test, or the del.
GetSessionStep(this, store, t) ==
    IF this.pc = "contains"
    THEN Stepped(IF HasKey(store, this.sid)
                 THEN [this EXCEPT !.pc = "getitem"]
                 ELSE Returns(this, FALSE, NoSession, <<>>), store)
    ELSE IF this.pc = "getitem"
    THEN IF ~HasKey(store, this.sid)
         THEN Stepped(Raises(this, "KeyError"), store)
         ELSE LET session == Lookup(store, this.sid)
              IN  Stepped(IF is_expired(session, t, session_timeout)
                          THEN [this EXCEPT !.pc = "del", !.session = session]
                          ELSE Returns(this, TRUE, session, <<>>), store)
    ELSE IF ~HasKey(store, this.sid)
         THEN Stepped(Raises(this, "KeyError"), store)
         ELSE Stepped(Returns(this, FALSE, NoSession, <<>>), Del(store, this.sid))

\* get_recent_session after the cleanup (lines 161-165), one step: the test
\* of line 161, the call of max, which makes its iterator (ValueError for
\* an empty dict), or the end of max.
RecentStep(this, store) ==
    IF this.pc = "empty"
    THEN IF store = <<>>
         THEN Returns(this, FALSE, NoSession, <<>>)
         ELSE [this EXCEPT !.pc = "max"]
    ELSE IF this.pc = "max"
    THEN IF store = <<>>
         THEN Raises(this, "ValueError")
         ELSE [this EXCEPT !.pc = "maxed", !.size = Len(store)]
    ELSE IF Len(store) # this.size
         THEN Raises(this, "RuntimeError")
         ELSE Returns(this, TRUE, MaxByTimestamp(store), <<>>)

\* The methods the threads call, and the pc each is entered at.
ThreadOps == {"create_session", "get_session", "get_recent_session",
              "list_active_sessions"}
EntryOf(op) ==
    CASE op = "create_session" -> "insert"
      [] op = "get_session" -> "contains"
      [] OTHER -> "iter"

\* The arguments of the create_session calls of the threads.
ThreadInput ==
    [results |-> <<J1, J2>>, search_terms |-> Some(<<"fraud">>),
     zip_code |-> "40210", radius |-> 5]

\* Thread th calls a method of the store.
ThreadCall(th, op, session_id) ==
    /\ threads[th].pc = "idle"
    /\ op # "get_session" => session_id = 1
    /\ op = "create_session" => Len(issued) < MaxCreates
    /\ threads' = [threads EXCEPT ![th] = [NoThread EXCEPT !.pc = EntryOf(op),
                                                          !.op = op,
                                                          !.sid = session_id]]
    /\ UNCHANGED <<storeVars, fetchVars, tool, listing, stdio>>

\* Lines 39-50 of create_session: the session is made and stored.
ThreadInsert(th) ==
    /\ threads[th].pc = "insert"
    /\ Len(issued) < MaxCreates
    /\ sessions' = Put(sessions,
                       SearchSession(uuid4, ThreadInput.search_terms.v,
                                     ThreadInput.zip_code, ThreadInput.radius,
                                     ThreadInput.results, now))
    /\ issued' = Append(issued, [t |-> now, given |-> ThreadInput])
    /\ threads' = [threads EXCEPT ![th] = [@ EXCEPT !.pc = "iter", !.sid = uuid4]]
    /\ UNCHANGED <<now, last, call, fetchVars, tool, listing, stdio>>

\* A step of _cleanup_expired_sessions in thread th.
ThreadCleanup(th) ==
    /\ threads[th].pc \in {"iter", "next", "delete"}
    /\ LET r == CleanupStep(threads[th], sessions, now)
       IN  /\ sessions' = r.sessions
           /\ threads' = [threads EXCEPT ![th] = r.this]
    /\ UNCHANGED <<now, issued, last, call, fetchVars, tool, listing, stdio>>

\* A step of get_session in thread th.
ThreadGetSession(th) ==
    /\ threads[th].pc \in {"contains", "getitem", "del"}
    /\ LET r == GetSessionStep(threads[th], sessions, now)
       IN  /\ sessions' = r.sessions
           /\ threads' = [threads EXCEPT ![th] = r.this]
    /\ UNCHANGED <<now, issued, last, call, fetchVars, tool, listing, stdio>>

\* A step of get_recent_session, after its cleanup, in thread th.
ThreadRecent(th) ==
    /\ threads[th].pc \in {"empty", "max", "maxed"}
    /\ threads' = [threads EXCEPT ![th] = RecentStep(@, sessions)]
    /\ UNCHANGED <<storeVars, fetchVars, tool, listing, stdio>>

\* Line 201 of list_active_sessions: list(self.sessions.keys())
ThreadKeys(th) ==
    /\ threads[th].pc = "keys"
    /\ threads' = [threads EXCEPT ![th] = Returns(@, TRUE, NoSession, Keys(sessions))]
    /\ UNCHANGED <<storeVars, fetchVars, tool, listing, stdio>>

\* The caller has its result, or its exception.
ThreadDone(th) ==
    /\ threads[th].pc \in {"returned", "raised"}
    /\ threads' = [threads EXCEPT ![th] = NoThread]
    /\ UNCHANGED <<storeVars, fetchVars, tool, listing, stdio>>

NextThreads ==
    \/ Tick
    \/ \E th \in Threads, op \in ThreadOps, session_id \in SessionIds :
            ThreadCall(th, op, session_id)
    \/ \E th \in Threads : ThreadInsert(th)
    \/ \E th \in Threads : ThreadCleanup(th)
    \/ \E th \in Threads : ThreadGetSession(th)
    \/ \E th \in Threads : ThreadRecent(th)
    \/ \E th \in Threads : ThreadKeys(th)
    \/ \E th \in Threads : ThreadDone(th)

SpecThreads == Init /\ [][NextThreads]_vars

\* C28: the session store is safe under concurrent callers.  For every
\* interleaving of create_session, get_session, get_recent_session and
\* list_active_sessions run by threads on one store, no call fails: none is
\* left by an exception (no del of a session that is already deleted, no
\* iteration over the dict while another caller inserts or deletes).
C28_SafeUnderThreads ==
    \A th \in Threads : threads[th].raised = "none"

----------------------------------------------------------------------------
(* The extraction of a listing page (src/stepstone_server.py, lines         *)
(* 123-207).  A page is the results container, or none, and its articles;   *)
(* an article is its links, in document order, and the elements with its   *)
(* heading, company and description, where it has them.  An href is the     *)
(* sequence of its parts, chosen so that no pattern of the code matches    *)
(* across two parts; a text is the sequence of its characters.  The jobs    *)
(* carry the position of their article on the page as `item`.               *)

\* The articles of a page, at most.
MaxArticles == 2

\* [:200], line 197
DescriptionLimit == 200

Base == "https://www.stepstone.de"

\* The parts an href may begin with that begin with the letters "http": two
\* origins, and the first segment of a relative path.
HttpParts == {Base, "http://example.com", "http-archive"}

\* href.startswith('http'), lines 155 and 179
StartsWithHttp(href) == href # <<>> /\ href[1] \in HttpParts

\* '/cmp/' in href, lines 155 and 183
HasCmp(href) == Contains(href, <<"/cmp/">>)

\* re.search(r'/stellenangebote--.*--\d+-inline\.html', href), line 145
JobPattern(href) ==
    \E i \in 1..Len(href), j \in 1..Len(href) :
        /\ href[i] = "/stellenangebote"
        /\ i + 1 <= Len(href) /\ href[i + 1] = "--"
        /\ j >= i + 2 /\ j + 2 <= Len(href)
        /\ href[j] = "--"
        /\ href[j + 1] \in {"123", "456"}
        /\ href[j + 2] = "-inline.html"

\* Lines 155-158: the test of the second loop.
RelativeJobLink(href) ==
    /\ ~(HasCmp(href) \/ StartsWithHttp(href))
    /\ href # <<>> /\ href[1] = "/stellenangebote"
    /\ Contains(href, <<"-inline.html">>)

\* The first of the positions, or 0.
FirstPosition(positions) ==
    IF positions = {} THEN 0
    ELSE CHOOSE i \in positions : \A k \in positions : i <= k

\* Lines 137-164: the link of the job, by the pattern first, else by the
\* second loop; 0 when the article has none.
JobLink(article) ==
    LET all_links == article.links
        first == FirstPosition({i \in 1..Len(all_links) : JobPattern(all_links[i].href)})
    IN  IF first # 0 THEN first
        ELSE FirstPosition({i \in 1..Len(all_links) : RelativeJobLink(all_links[i].href)})

\* Lines 147 and 166-174: the title.
TitleOf(article, link) ==
    LET job_title == Strip(link.text)
        replaced == IF (job_title = <<>> \/ Len(job_title) < 5) /\ article.heading.some
                    THEN Strip(article.heading.v)
                    ELSE job_title
    IN  IF replaced # <<>> THEN replaced ELSE <<"Unknown Title">>

\* Lines 176-180: the absolute URL.
AbsoluteLink(href) == IF StartsWithHttp(href) THEN href ELSE <<Base>> \o href

\* Line 183: duplicates and company profile links are skipped.
SkipLink(link, seen_links) == link \in seen_links \/ HasCmp(link)

\* Line 191
CompanyOf(article) ==
    IF article.company.some THEN Strip(article.company.v) ELSE <<"Unknown Company">>

\* Line 197: desc_elem.get_text(strip=True)[:200] + "..." if desc_elem and
\* desc_elem.get_text(strip=True) else "No description available"
DescriptionOf(article) ==
    LET text == Strip(article.desc.v)
    IN  IF article.desc.some /\ text # <<>>
        THEN SubSeq(text, 1, Min(DescriptionLimit, Len(text))) \o <<"...">>
        ELSE <<"No description available">>

\* Lines 130-204: jobs and seen_links after the first n articles.
RECURSIVE ExtractItems(_, _)
ExtractItems(articles, n) ==
    IF n = 0
    THEN [jobs |-> <<>>, seen_links |-> {}]
    ELSE LET before == ExtractItems(articles, n - 1)
             article == articles[n]
             k == JobLink(article)
             link == AbsoluteLink(article.links[k].href)
         IN  IF k = 0 THEN before
             ELSE IF SkipLink(link, before.seen_links) THEN before
             ELSE [jobs |-> Append(before.jobs,
                                   [title |-> TitleOf(article, article.links[k]),
                                    company |-> CompanyOf(article),
                                    description |-> DescriptionOf(article),
                                    link |-> link, item |-> n]),
                   seen_links |-> before.seen_links \cup {link}]

\* Lines 123-207: what fetch_job_listings returns for the page.
ExtractListing(html) ==
    IF ~html.container THEN <<>>
    ELSE ExtractItems(html.articles, Len(html.articles)).jobs

\* A text of n characters.
Chars(n) == [i \in 1..n |-> "x"]

\* The hrefs of the pages: a job, relative and absolute; a company profile;
\* a job under a company profile path; a job link that only the second loop
\* takes; the same on another site; another job; a job under a relative
\* path whose first segment begins with "http".
RelativeJob == <<"/stellenangebote", "--", "role", "--", "123", "-inline.html">>
AbsoluteJob == <<Base>> \o RelativeJob
Profile == <<"/cmp/", "acme">>
ProfileJob == <<"/cmp/", "acme">> \o RelativeJob
PlainJob == <<"/stellenangebote", "/role", "-inline.html">>
ForeignJob == <<"http://example.com", "/stellenangebote", "/role", "-inline.html">>
OtherJob == <<"/stellenangebote", "--", "data", "--", "456", "-inline.html">>
ArchivedJob == <<"http-archive">> \o RelativeJob

A(href, text) == [href |-> href, text |-> text]

\* The links of an article, in document order.
LinkLists ==
    { <<>>,
      <<A(RelativeJob, <<"R", "o", "l", "e", "s">>)>>,
      <<A(Profile, <<"A", "c", "m", "e">>), A(AbsoluteJob, <<" ", "D", "e", "v">>)>>,
      <<A(Profile, <<"A", "c", "m", "e">>), A(ProfileJob, <<>>)>>,
      <<A(ForeignJob, <<>>), A(PlainJob, <<"R", "o", "l", "e", "s">>)>>,
      <<A(OtherJob, <<>>), A(RelativeJob, <<>>)>>,
      <<A(ArchivedJob, <<"R", "o", "l", "e", "s">>)>> }

\* The description elements: none, one without text, and texts of fewer
\* characters than the limit, as many, and more.
Descriptions ==
    { None, Some(<<" ">>), Some(<<" ", "a", "b", " ">>),
      Some(Chars(DescriptionLimit)), Some(Chars(DescriptionLimit + 1)) }

Articles ==
    [links : LinkLists, heading : {None, Some(<<"H", "e", "a", "d", "s">>)},
     company : {None, Some(<<"A", "G">>)}, desc : Descriptions]

\* The pages: one without the container, and those of up to max articles.
Pages(max) ==
    {[container |-> FALSE, articles |-> <<>>]}
    \cup UNION {{[container |-> TRUE, articles |-> as] : as \in [1..n -> Articles]} :
                    n \in 0..max}

\* The response of a request is at hand: lines 123-207 run on it.
Extract ==
    /\ listing.pc = "page"
    /\ listing' = [listing EXCEPT !.pc = "extracted",
                                  !.jobs = ExtractListing(listing.html)]
    /\ UNCHANGED <<storeVars, fetchVars, tool, threads, stdio>>

InitExtract ==
    /\ sessions = <<>>
    /\ now = 0
    /\ issued = <<>>
    /\ last = Obs("none")
    /\ call = NoCall
    /\ scraper = NoScraper
    /\ parser = NoParser
    /\ http = <<>>
    /\ sleep_calls = <<>>
    /\ fetch = [w \in Slots |-> NoFetch]
    /\ search = NoSearch
    /\ page = NoPage
    /\ tool = NoTool
    /\ threads = [th \in Threads |-> NoThread]
    /\ \E html \in Pages(MaxArticles) : listing = [pc |-> "page", html |-> html, jobs |-> <<>>]
    /\ stdio = NoTransport

NextExtract == Extract

SpecExtract == InitExtract /\ [][NextExtract]_vars

\* The article has a job link, and the absolute URL of it.
HasJobLink(article) == JobLink(article) # 0
LinkOf(article) == AbsoluteLink(article.links[JobLink(article)].href)

\* An absolute URL begins with the scheme and host of a site.
IsAbsolute(link) == link # <<>> /\ link[1] \in {Base, "http://example.com"}

\* The items a page is to give: those with a job link that is no company
\* profile link and that no earlier item has.
ItemsKept(articles) ==
    {i \in 1..Len(articles) :
        /\ HasJobLink(articles[i])
        /\ ~HasCmp(LinkOf(articles[i]))
        /\ \A j \in 1..(i - 1) :
              HasJobLink(articles[j]) => LinkOf(articles[j]) # LinkOf(articles[i])}

\* C29: the links of the summaries of one extraction are pairwise distinct,
\* all absolute, and none contains '/cmp/'; of the items with the same
\* absolute link the first in document order is the one kept; a page with
\* the container and no valid item gives the empty list.
C29_DistinctLinks ==
    listing.pc = "extracted" =>
        LET jobs == listing.jobs
            articles == listing.html.articles
        IN  /\ \A a \in 1..Len(jobs), b \in 1..Len(jobs) :
                  a # b => jobs[a].link # jobs[b].link
            /\ \A a \in 1..Len(jobs) :
                  /\ IsAbsolute(jobs[a].link)
                  /\ ~HasCmp(jobs[a].link)
                  /\ jobs[a].link = LinkOf(articles[jobs[a].item])
            /\ {jobs[a].item : a \in 1..Len(jobs)} = ItemsKept(articles)
            /\ \A a \in 1..Len(jobs), b \in 1..Len(jobs) :
                  a < b => jobs[a].item < jobs[b].item
            /\ ItemsKept(articles) = {} => jobs = <<>>

\* C30: the description of a summary is the description text of the item
\* cut to 200 characters, with the ellipsis appended only when the text was
\* cut; an item without description text gets 'No description available'.
C30_Description ==
    listing.pc = "extracted" =>
        \A a \in 1..Len(listing.jobs) :
            LET desc == listing.html.articles[listing.jobs[a].item].desc
                text == Strip(desc.v)
            IN  listing.jobs[a].description =
                    IF ~desc.some \/ text = <<>>
                    THEN <<"No description available">>
                    ELSE IF Len(text) <= DescriptionLimit
                    THEN text
                    ELSE SubSeq(text, 1, DescriptionLimit) \o <<"...">>

----------------------------------------------------------------------------
(* The pool of search_jobs with more terms than workers (lines 242-252).   *)
(* The call of _search_single_term a worker runs is one step here, and     *)
(* leaves no trace of its requests.                                         *)

\* The terms of a search, at most.
MaxPoolTerms == 9

\* Lines 228-233: the task of a worker runs to its return, its fetch having
\* found the listing.
RunTask(i) ==
    /\ search.pc = "running"
    /\ i \in Running
    /\ fetch' = [fetch EXCEPT ![i] = AfterAttempt(scraper, @, "ok")]
    /\ UNCHANGED <<storeVars, toolVars, scraper, parser, http, sleep_calls, search, page>>

\* The term lists of the pool: one term, up to MaxPoolTerms times.
PoolTermLists == {[i \in 1..k |-> "fraud"] : k \in 1..MaxPoolTerms}

InitPool ==
    /\ sessions = <<>>
    /\ now = 0
    /\ issued = <<>>
    /\ last = Obs("none")
    /\ call = NoCall
    /\ scraper = SearchScraper
    /\ parser = NoParser
    /\ http = <<>>
    /\ sleep_calls = <<>>
    /\ fetch = [w \in 0..MaxPoolTerms |-> NoFetch]
    /\ search = NoSearch
    /\ page = NoPage
    /\ NothingHandled

NextPool ==
    \/ \E search_terms \in PoolTermLists : SearchJobs(search_terms, "40210", 5)
    \/ StartTask
    \/ \E i \in 1..MaxPoolTerms : RunTask(i)
    \/ \E i \in 1..MaxPoolTerms : Collect(i)
    \/ SearchReturn

SpecPool == InitPool /\ [][NextPool]_vars

\* C32: during a search_jobs call over n >= 1 terms at most min(8, n) term
\* fetches are in flight at the same time, one fetch is dispatched per
\* input term, and search_jobs returns only after every dispatched fetch
\* has completed.
C32_BoundedPool ==
    LET n == Len(search.search_terms)
    IN  (search.pc # "idle" /\ n >= 1) =>
            /\ Cardinality(Running) <= Min(8, n)
            /\ search.started <= n
            /\ \A i \in 1..search.started :
                  /\ fetch[i].n = 1
                  /\ fetch[i].url.term = search.search_terms[i]
            /\ search.pc = "returned" =>
                  /\ search.started = n
                  /\ Running = {}
                  /\ \A i \in 1..n : fetch[i].pc = "returned"

\* Nine terms: eight fetches are in flight and the ninth task waits for a
\* worker.
C32_Witness ==
    /\ search.pc = "running"
    /\ Len(search.search_terms) = 9
    /\ Cardinality(Running) = 8
    /\ search.started = 8

----------------------------------------------------------------------------
(* The tasks of one search and the fetch client they call.                  *)

\* The identifiers of the requests of task w, in order.
AgentsOf(w) == [k \in 1..Len(fetch[w].requests) |-> fetch[w].requests[k].agent]

\* The identifiers a task sends when it runs alone on a client of its own:
\* the pool from its first identifier on.
AgentsAlone(pool, count) == [k \in 1..count |-> pool[((k - 1) % Len(pool)) + 1]]

\* C33: the tasks of one search share no mutable state; each task owns its
\* own rotation position and last-used headers, so that under every
\* interleaving the identifiers of the requests of a task are those it
\* sends when it runs alone.
C33_TasksIsolated ==
    search.pc # "idle" =>
        \A w \in 1..search.started :
            /\ AgentsOf(w) = AgentsAlone(scraper.agents, Len(fetch[w].requests))
            /\ (fetch[w].pc \in {"returned", "backoff"} /\ fetch[w].requests # <<>>)
                  => scraper.headers = fetch[w].requests[Len(fetch[w].requests)].agent

----------------------------------------------------------------------------
(* An exception that is no network failure, in fetch_job_listings.          *)

\* C34: an exception of a listing attempt that is no network failure is
\* never retried: fetch_job_listings sends no further request and sleeps no
\* backoff after it, and returns the empty list.
C34_NoRetryOnOther ==
    \A w \in Slots :
        LET this == fetch[w]
        IN  \A k \in 1..Len(this.outcomes) :
                this.outcomes[k] = "Exception" =>
                    /\ k = Len(this.outcomes)
                    /\ Len(this.requests) = k
                    /\ this.trace[Len(this.trace)] = RequestStep
                    /\ this.pc = "returned"
                    /\ this.ret = <<>>
                    /\ ~this.raised

\* A network failure, retried, and then another exception, with attempts
\* left: the call has returned.
C34_Witness ==
    /\ fetch[0].outcomes = <<"RequestException", "Exception">>
    /\ scraper.max_retries > 2
    /\ fetch[0].pc = "returned"
    /\ Len(fetch[0].requests) = 2

----------------------------------------------------------------------------
(* The two lookups of the session in one get_job_details request.           *)

\* The session the request resolved was live when it was resolved.
ResolvedLive ==
    /\ call.resolved_session # NoSession
    /\ ~is_expired(call.resolved_session, call.t_resolved, session_timeout)

\* C35: once a request has resolved a live session and its job_index lies
\* within 1..len(results) of that session, it goes on to fetch that job and
\* never answers 'No job found at the requested index', whatever time
\* passes between the resolution and the lookup.
C35_ResolvedIsUsed ==
    (ResolvedLive /\ IndexInRange /\ LookedUp) =>
        /\ call.response # "No job found at the requested index"
        /\ call.job = call.resolved_session.results[call.job_index.v]

----------------------------------------------------------------------------
(* The session of a search_jobs request.                                    *)

\* The result lists of the terms, in the order of the terms, one after the
\* other; a term that occurs again has no list of its own.
RECURSIVE PerTerm(_, _, _)
PerTerm(search_terms, mapping, i) ==
    IF i > Len(search_terms) THEN <<>>
    ELSE IF \E k \in 1..(i - 1) : search_terms[k] = search_terms[i]
    THEN PerTerm(search_terms, mapping, i + 1)
    ELSE DictGet(mapping, search_terms[i], <<>>)
            \o PerTerm(search_terms, mapping, i + 1)

\* The search of the request has completed and the handler has gone on.
SearchCompleted == tool.pc = "done" /\ search.pc = "returned"

\* C36: every search_jobs request that passes validation and whose search
\* completes creates exactly one session, also when no job was found; the
\* results of the session are the result lists of the terms, in the order
\* of the terms, one after the other, with no job dropped because another
\* term has it too, and job_index k addresses the k-th job of them.
C36_OneSessionInTermOrder ==
    /\ [](SearchCompleted =>
            LET jobs == PerTerm(tool.search_terms, search.ret, 1)
            IN  /\ tool.created
                /\ (HasKey(sessions, tool.session)
                        /\ ~is_expired(Lookup(sessions, tool.session), now,
                                       session_timeout)) =>
                      /\ Lookup(sessions, tool.session).results = jobs
                      /\ \A k \in 1..Len(jobs) :
                            LET r == get_job_by_index(sessions, now, tool.session, k)
                            IN  r.found /\ r.job = jobs[k])
    /\ [][(SearchJobsAwaited /\ search.pc = "returned") =>
            /\ Len(issued') = Len(issued) + 1
            /\ HasKey(sessions', tool'.session)
            /\ ~HasKey(sessions, tool'.session)
            /\ \A i \in 1..Len(sessions') :
                  sessions'[i].session_id = tool'.session
                      \/ HasKey(sessions, sessions'[i].session_id)]_vars

\* Two terms with the same two jobs: the session has four, and the third
\* is the first job of the second term.
C36_Witness ==
    /\ SearchCompleted
    /\ Len(tool.search_terms) = 2
    /\ tool.search_terms[1] # tool.search_terms[2]
    /\ HasKey(sessions, tool.session)
    /\ Lookup(sessions, tool.session).results = <<J1, J2, J1, J2>>

----------------------------------------------------------------------------
(* find_job_in_session with a query of nothing but whitespace.              *)

\* The entries with a string title.
Titled(R) == {i \in 1..Len(R) : HasTitle(R[i])}

\* C37: find_job_in_session trims the query before matching, so a query
\* that is empty after trimming matches in the title stage and the first
\* entry with a string title is returned; absent is returned only when no
\* entry has a string title.
C37_BlankQuery ==
    (last.op = "find_job_in_session" /\ Live(last.sid, last.t)
        /\ Strip(last.query) = <<>>) =>
        /\ Titled(LastResults) # {} =>
              /\ last.found
              /\ last.job = LastResults[Least(Titled(LastResults))]
        /\ ~last.found => Titled(LastResults) = {}
        /\ ~last.raised

\* A query of one space: the first entry has no string title, and the
\* second, whose title has no space in it, is returned.
C37_Witness ==
    /\ last.op = "find_job_in_session"
    /\ last.query = <<" ">>
    /\ Len(LastResults) = 2
    /\ ~HasTitle(LastResults[1])
    /\ HasTitle(LastResults[2])
    /\ ~Contains(LastResults[2].title.s, <<" ">>)
    /\ last.found
    /\ last.job = LastResults[2]

----------------------------------------------------------------------------
(* Part 4: the stdio transport (src/stdio_transport.py) and the transport  *)
(* main enters (src/stepstone_server.py, lines 24 and 642).                 *)
(*                                                                          *)
(* A text is a sequence of characters, each a string of the model: "LF" is  *)
(* the line feed, "CR" the carriage return and "U+00E9" a letter that takes *)
(* two bytes in UTF-8; every other character takes one byte.                *)

\* The messages the server may send on its own before it stops, a bound.
MaxNotifications == 1

\* len(c.encode('utf-8')) for one character
Utf8Len(c) == IF c = "U+00E9" THEN 2 ELSE 1

\* len(text.encode('utf-8'))
RECURSIVE EncodedLen(_)
EncodedLen(text) ==
    IF text = <<>> THEN 0 ELSE Utf8Len(Head(text)) + EncodedLen(Tail(text))

\* What TextIOWrapper(sys.stdin.buffer, encoding="utf-8") makes of the
\* characters the peer wrote: with the default newline=None, "\r\n" and a
\* lone "\r" are read as "\n".
RECURSIVE Decode(_)
Decode(written) ==
    IF written = <<>> THEN <<>>
    ELSE IF Head(written) = "CR"
         THEN IF Len(written) > 1 /\ written[2] = "LF"
              THEN <<"LF">> \o Decode(SubSeq(written, 3, Len(written)))
              ELSE <<"LF">> \o Decode(Tail(written))
         ELSE <<Head(written)>> \o Decode(Tail(written))

\* str(n) as a text, for an int n >= 0
RECURSIVE Decimal(_)
Decimal(n) ==
    IF n < 10 THEN <<Digit(n)>> ELSE Decimal(n \div 10) \o <<Digit(n % 10)>>

IsDigit(c) == c \in {Digit(d) : d \in 0..9}

DigitValue(c) == CHOOSE d \in 0..9 : Digit(d) = c

\* int(text) for a text of decimal digits, NoLength where int raises
\* ValueError: for the empty text and for a text with another character.
RECURSIVE ParseInt(_)
ParseInt(text) ==
    IF text = <<>> \/ \E i \in 1..Len(text) : ~IsDigit(text[i]) THEN NoLength
    ELSE IF Len(text) = 1 THEN DigitValue(text[1])
    ELSE 10 * ParseInt(SubSeq(text, 1, Len(text) - 1)) + DigitValue(text[Len(text)])

\* text.startswith(prefix)
StartsWith(text, prefix) ==
    Len(text) >= Len(prefix) /\ SubSeq(text, 1, Len(prefix)) = prefix

\* The position of the first c in text, 0 if there is none.
FirstIndex(text, c) ==
    IF \E i \in 1..Len(text) : text[i] = c
    THEN CHOOSE i \in 1..Len(text) : text[i] = c /\ \A j \in 1..(i - 1) : text[j] # c
    ELSE 0

\* "content-length:" and "content-length", lines 45 and 59
ContentLengthPrefix ==
    <<"c", "o", "n", "t", "e", "n", "t", "-", "l", "e", "n", "g", "t", "h", ":">>

ContentLengthName == SubSeq(ContentLengthPrefix, 1, Len(ContentLengthPrefix) - 1)

\* "Content-Length:", line 120
ContentLengthHeader ==
    <<"C", "o", "n", "t", "e", "n", "t", "-", "L", "e", "n", "g", "t", "h", ":">>

\* The JSON-RPC messages of the model: a request of the client without and
\* with a two-byte letter, a response and a notification of the server.
Ping == <<"{", "p", "}">>
Cafe == <<"{", "U+00E9", "}">>
Pong == <<"{", "r", "}">>
Note == <<"{", "n", "}">>
Messages == {Ping, Cafe, Pong, Note}

\* A text that is no JSON.
Junk == <<"x">>

\* Whether types.JSONRPCMessage.model_validate_json(payload) returns a
\* message (JSON allows whitespace around the value); it raises otherwise.
IsMessage(payload) == Strip(payload) \in Messages

\* What lines 97-103 send for a payload.
Validated(payload) ==
    IF IsMessage(payload)
    THEN [kind |-> "message", payload |-> Strip(payload), error |-> ""]
    ELSE [kind |-> "exception", payload |-> payload, error |-> "ValidationError"]

\* ValueError(text) as an item of the read stream
ValueError(text) == [kind |-> "exception", payload |-> <<>>, error |-> text]

\* The length of the line stdin yields next: up to the first "\n", the rest
\* of the input at its end, and 0 while the line is not complete.
LineLength(text, eof) ==
    IF FirstIndex(text, "LF") > 0 THEN FirstIndex(text, "LF")
    ELSE IF eof THEN Len(text) ELSE 0

\* Lines 55-64: the value of the first Content-Length header, NoLength for
\* None.
RECURSIVE ContentLengthOf(_)
ContentLengthOf(headers) ==
    IF headers = <<>> THEN NoLength
    ELSE LET header_line == Head(headers)
             colon == FirstIndex(header_line, ":")
             name == SubSeq(header_line, 1, colon - 1)
             value == SubSeq(header_line, colon + 1, Len(header_line))
         IN  IF colon = 0 THEN ContentLengthOf(Tail(headers))
             ELSE IF Lower(Strip(name)) = ContentLengthName
                  THEN ParseInt(Strip(value))
                  ELSE ContentLengthOf(Tail(headers))

\* Lines 120-121: what stdout_writer writes in content-length mode, with the
\* length in bytes.
ContentLengthFrame(message_json) ==
    ContentLengthHeader \o <<" ">> \o Decimal(EncodedLen(message_json))
        \o <<"CR", "LF", "CR", "LF">> \o message_json

\* Line 123: what it writes in newline mode.
NewlineFrame(message_json) == message_json \o <<"LF">>

\* The context managers: adaptive_stdio_server of src/stdio_transport.py and
\* stdio_server of the mcp library, which main imports and enters.
Adaptive == "adaptive_stdio_server"
Library == "mcp.server.stdio.stdio_server"
stdio_server == Library

\* One frame of the peer: how it is framed, its payload and what is wrong
\* with it ("none", "length", "short", "invalid"; a blank line has no payload).
Frame(framing, payload, fault) ==
    [framing |-> framing, payload |-> payload, fault |-> fault]

\* An input: the characters the peer wrote and the frames they are.
Input(written, frames) == [written |-> written, frames |-> frames]

\* A Content-Length header with the given value and the blank line after it.
HeaderWith(value) == ContentLengthHeader \o value \o <<"CR", "LF", "CR", "LF">>

\* The inputs of the model.  A frame of the peer is written as stdout_writer
\* writes it, unless it is one of the faulty frames.
Inputs ==
    { Input(<<>>, <<>>),
      Input(ContentLengthFrame(Ping), <<Frame("content-length", Ping, "none")>>),
      Input(NewlineFrame(Ping), <<Frame("newline", Ping, "none")>>),
      Input(ContentLengthFrame(Ping) \o ContentLengthFrame(Ping),
            <<Frame("content-length", Ping, "none"),
              Frame("content-length", Ping, "none")>>),
      Input(ContentLengthFrame(Cafe), <<Frame("content-length", Cafe, "none")>>),
      Input(ContentLengthFrame(Cafe) \o ContentLengthFrame(Ping),
            <<Frame("content-length", Cafe, "none"),
              Frame("content-length", Ping, "none")>>),
      Input(NewlineFrame(Cafe) \o NewlineFrame(Ping),
            <<Frame("newline", Cafe, "none"), Frame("newline", Ping, "none")>>),
      Input(NewlineFrame(Ping) \o ContentLengthFrame(Ping),
            <<Frame("newline", Ping, "none"),
              Frame("content-length", Ping, "none")>>),
      Input(ContentLengthFrame(Ping) \o NewlineFrame(Ping),
            <<Frame("content-length", Ping, "none"),
              Frame("newline", Ping, "none")>>),
      Input(HeaderWith(<<" ", "x">>) \o Ping \o ContentLengthFrame(Ping),
            <<Frame("content-length", Ping, "length"),
              Frame("content-length", Ping, "none")>>),
      Input(HeaderWith(<<>>) \o ContentLengthFrame(Ping),
            <<Frame("content-length", <<>>, "length"),
              Frame("content-length", Ping, "none")>>),
      Input(HeaderWith(<<" ", "5">>) \o Ping,
            <<Frame("content-length", Ping, "short")>>),
      Input(ContentLengthFrame(Junk) \o ContentLengthFrame(Ping),
            <<Frame("content-length", Junk, "invalid"),
              Frame("content-length", Ping, "none")>>),
      Input(NewlineFrame(Junk) \o NewlineFrame(Ping),
            <<Frame("newline", Junk, "invalid"), Frame("newline", Ping, "none")>>),
      Input(<<"LF", " ", "LF">> \o NewlineFrame(Ping),
            <<Frame("blank", <<>>, "none"), Frame("blank", <<>>, "none"),
              Frame("newline", Ping, "none")>> ) }

\* Entering the context manager: the reader is about to read its first line.
Opened(transport, input, eof) ==
    [NoTransport EXCEPT
        !.transport = transport, !.pc = "line", !.stdin = Decode(input.written),
        !.eof = eof, !.frames = input.frames]

\* Lines 85-87, 93-95 and 112-114: the mode after a task that found the
\* payload framed in `mode` (the writer: "content-length") has passed them.
SetMode_always(t, mode) ==
    [t EXCEPT !.framing_mode = mode, !.assigned = @ + 1]

SetMode(t, mode) ==
    IF t.framing_mode = "unset"
    THEN [t EXCEPT !.framing_mode = mode, !.assigned = @ + 1]
    ELSE t

\* The reader has a payload in the given framing: lines 84-87 or 92-95, and
\* lines 97-101 up to the send.
WithPayload(t, payload, framing) ==
    [SetMode(t, framing) EXCEPT
        !.item = Validated(payload), !.pc = "send",
        !.first_read = IF @ = "none" THEN framing ELSE @]

\* The reader is about to send an exception and go on with the next line.
WithError(t, text) == [t EXCEPT !.item = ValueError(text), !.pc = "send"]

\* stdin has a line for the reader, or is at its end.
LineReady == LineLength(stdio.stdin, stdio.eof) > 0 \/ (stdio.stdin = <<>> /\ stdio.eof)

\* Lines 42-45 and 88-95: `async for line in stdin` yields a line, or ends.
ReadLine ==
    /\ stdio.transport = Adaptive
    /\ stdio.pc = "line"
    /\ LineReady
    /\ LET n == LineLength(stdio.stdin, stdio.eof)
           line == SubSeq(stdio.stdin, 1, n)
           rest == [stdio EXCEPT !.stdin = SubSeq(@, n + 1, Len(@))]
           stripped == Strip(line)
       IN  stdio' =
             IF stdio.stdin = <<>> THEN [stdio EXCEPT !.pc = "closed"]
             ELSE IF StartsWith(Lower(line), ContentLengthPrefix)
                  THEN [rest EXCEPT !.pc = "headers", !.headers = <<line>>,
                                    !.content_length = NoLength]
             ELSE IF stripped = <<>> THEN rest
             ELSE WithPayload(rest, stripped, "newline")
    /\ UNCHANGED <<storeVars, fetchVars, tool, threads, listing>>

\* Lines 49-68: one readline of the header loop and, at the blank line or the
\* end of the input, the parse of the headers.
ReadHeader ==
    /\ stdio.transport = Adaptive
    /\ stdio.pc = "headers"
    /\ LineReady
    /\ LET n == LineLength(stdio.stdin, stdio.eof)
           next_line == SubSeq(stdio.stdin, 1, n)
           rest == [stdio EXCEPT !.stdin = SubSeq(@, n + 1, Len(@))]
           content_length == ContentLengthOf(stdio.headers)
       IN  stdio' =
             IF next_line \in {<<>>, <<"LF">>, <<"CR", "LF">>}
             THEN IF content_length = NoLength
                  THEN WithError(rest, "Missing Content-Length header")
                  ELSE [rest EXCEPT !.pc = "body", !.content_length = content_length]
             ELSE [rest EXCEPT !.headers = Append(@, next_line)]
    /\ UNCHANGED <<storeVars, fetchVars, tool, threads, listing>>

\* Lines 70-87: the reads of the body, which return once content_length
\* characters have come or the input has ended.
ReadBody ==
    /\ stdio.transport = Adaptive
    /\ stdio.pc = "body"
    /\ Len(stdio.stdin) >= stdio.content_length \/ stdio.eof
    /\ LET n == Min(stdio.content_length, Len(stdio.stdin))
           body == SubSeq(stdio.stdin, 1, n)
           rest == [stdio EXCEPT !.stdin = SubSeq(@, n + 1, Len(@))]
       IN  stdio' =
             IF Len(body) # stdio.content_length
             THEN WithError(rest, "Incomplete Content-Length body")
             ELSE WithPayload(rest, body, "content-length")
    /\ UNCHANGED <<storeVars, fetchVars, tool, threads, listing>>

\* Lines 67, 81, 100 and 103: read_stream_writer.send returns, the server has
\* the item; a message is a request the server will answer.
Forward ==
    /\ stdio.pc = "send"
    /\ stdio' = [stdio EXCEPT
                    !.pc = "line", !.item = NoItem,
                    !.read_stream = Append(@, stdio.item),
                    !.unanswered = IF stdio.item.kind = "message" THEN @ + 1 ELSE @]
    /\ UNCHANGED <<storeVars, fetchVars, tool, threads, listing>>

\* The server sends the response to a request on the write stream.
Answer ==
    /\ stdio.transport # "none"
    /\ stdio.unanswered > 0
    /\ stdio.write_stream = <<>>
    /\ stdio' = [stdio EXCEPT !.unanswered = @ - 1, !.write_stream = <<Pong>>]
    /\ UNCHANGED <<storeVars, fetchVars, tool, threads, listing>>

\* A user of the transport sends a message nobody asked for.
Notify ==
    /\ stdio.transport = Adaptive
    /\ stdio.notified < MaxNotifications
    /\ stdio.write_stream = <<>>
    /\ stdio' = [stdio EXCEPT !.notified = @ + 1, !.write_stream = <<Note>>]
    /\ UNCHANGED <<storeVars, fetchVars, tool, threads, listing>>

\* What was written for one message: the text, and what the reader had read
\* by then.
Written(t, message_json, text) ==
    [payload |-> message_json, text |-> text, first_read |-> t.first_read,
     forwarded |-> Len(t.read_stream)]

\* Lines 107-124: stdout_writer writes one message.
Write ==
    /\ stdio.transport = Adaptive
    /\ stdio.write_stream # <<>>
    /\ LET message_json == stdio.write_stream[1]
           t == SetMode(stdio, "content-length")
           mode == t.framing_mode
           text == IF mode = "content-length"
                   THEN ContentLengthFrame(message_json)
                   ELSE NewlineFrame(message_json)
       IN  stdio' = [t EXCEPT !.write_stream = <<>>,
                              !.stdout = Append(@, Written(t, message_json, text))]
    /\ UNCHANGED <<storeVars, fetchVars, tool, threads, listing>>

InitStdio ==
    /\ sessions = <<>>
    /\ now = 0
    /\ issued = <<>>
    /\ last = Obs("none")
    /\ call = NoCall
    /\ scraper = NoScraper
    /\ parser = NoParser
    /\ http = <<>>
    /\ sleep_calls = <<>>
    /\ fetch = [w \in Slots |-> NoFetch]
    /\ search = NoSearch
    /\ page = NoPage
    /\ tool = NoTool
    /\ threads = [th \in Threads |-> NoThread]
    /\ listing = NoListing
    /\ \E input \in Inputs, eof \in BOOLEAN : stdio = Opened(Adaptive, input, eof)

NextStdio == ReadLine \/ ReadHeader \/ ReadBody \/ Forward \/ Answer \/ Notify \/ Write

SpecStdio == InitStdio /\ [][NextStdio]_vars

\* What stdout_writer writes for a message in the given mode.
Framed(mode, message_json) ==
    IF mode = "content-length" THEN ContentLengthFrame(message_json)
    ELSE NewlineFrame(message_json)

\* The writer wrote before the reader had read a payload completely.
WriterWasFirst == stdio.stdout # <<>> /\ stdio.stdout[1].first_read = "none"

\* C38: the framing mode is assigned at most once and never changes once it
\* is set; it is the framing of the first payload the reader read completely,
\* or content-length if the writer wrote a message before that; and every
\* message written is framed in that mode, whatever the framing of the
\* inbound messages read later.
C38_ModeFixedOnce ==
    /\ [](/\ stdio.assigned <= 1
          /\ (stdio.framing_mode = "unset")
                <=> (stdio.first_read = "none" /\ stdio.stdout = <<>>)
          /\ stdio.framing_mode # "unset" =>
                stdio.framing_mode =
                    IF WriterWasFirst THEN "content-length" ELSE stdio.first_read
          /\ \A k \in 1..Len(stdio.stdout) :
                stdio.stdout[k].text =
                    Framed(stdio.framing_mode, stdio.stdout[k].payload))
    /\ [][stdio.framing_mode # "unset" => stdio'.framing_mode = stdio.framing_mode]_vars

\* A message read in newline framing fixed the mode, a message in
\* content-length framing was read after it, and the response to that one was
\* written as a line.
C38_Witness ==
    /\ stdio.transport = Adaptive
    /\ stdio.framing_mode = "newline"
    /\ Len(stdio.read_stream) = 2
    /\ stdio.frames[2].framing = "content-length"
    /\ stdio.read_stream[2] = Validated(Ping)
    /\ Len(stdio.stdout) >= 2
    /\ stdio.stdout[Len(stdio.stdout)].forwarded = 2
    /\ stdio.stdout[Len(stdio.stdout)].text = NewlineFrame(Pong)

\* Every frame of the input is a message as stdout_writer writes it in
\* content-length mode.
WriterFrames ==
    /\ stdio.frames # <<>>
    /\ \A k \in 1..Len(stdio.frames) :
          stdio.frames[k].framing = "content-length" /\ stdio.frames[k].fault = "none"

\* What the reader reads of the frames from the k-th on, as the writer
\* writes them.
RECURSIVE FramesFrom(_, _)
FramesFrom(frames, k) ==
    IF k > Len(frames) THEN <<>>
    ELSE Decode(ContentLengthFrame(frames[k].payload)) \o FramesFrom(frames, k + 1)

\* C39: content-length framing round-trips.  Of an input made of frames
\* written by stdout_writer in content-length mode, the reader forwards the
\* payload of each frame as a message, in order; between two frames it
\* stands at the start of the next one; and at the end of the input it has
\* forwarded every frame.
C39_RoundTrip ==
    (stdio.transport = Adaptive /\ WriterFrames) =>
        /\ Len(stdio.read_stream) <= Len(stdio.frames)
        /\ \A k \in 1..Len(stdio.read_stream) :
              stdio.read_stream[k] =
                  [kind |-> "message", payload |-> stdio.frames[k].payload, error |-> ""]
        /\ stdio.pc = "line" =>
              stdio.stdin = FramesFrom(stdio.frames, Len(stdio.read_stream) + 1)
        /\ stdio.pc = "closed" => Len(stdio.read_stream) = Len(stdio.frames)

\* The kinds of the items the reader is to forward for the frames: nothing
\* for a blank line, one exception for a faulty frame, one message otherwise.
RECURSIVE ExpectedKinds(_)
ExpectedKinds(frames) ==
    IF frames = <<>> THEN <<>>
    ELSE (IF Head(frames).framing = "blank" THEN <<>>
          ELSE IF Head(frames).fault # "none" THEN <<"exception">>
          ELSE <<"message">>) \o ExpectedKinds(Tail(frames))

\* The input has a faulty frame or a blank line.
FaultyInput ==
    \E k \in 1..Len(stdio.frames) :
        stdio.frames[k].fault # "none" \/ stdio.frames[k].framing = "blank"

\* Every frame of the input is rejected for its length or its short body.
AllRejected ==
    \A k \in 1..Len(stdio.frames) : stdio.frames[k].fault \in {"length", "short"}

\* C40: the reader recovers from bad input.  Once it has read an input with
\* faulty frames or blank lines to its end, it has forwarded exactly one
\* exception for each faulty frame, one message for each other frame and
\* nothing for a blank line, in the order of the frames; and frames rejected
\* for a missing or non-numeric length or a short body leave the framing mode
\* unset.
C40_Recovers ==
    (stdio.transport = Adaptive /\ FaultyInput /\ stdio.pc = "closed") =>
        /\ [k \in 1..Len(stdio.read_stream) |-> stdio.read_stream[k].kind]
              = ExpectedKinds(stdio.frames)
        /\ (AllRejected /\ stdio.stdout = <<>>) => stdio.framing_mode = "unset"

\* stdin_reader of the library's stdio_server: each line of stdin, with its
\* line break, is validated as a JSON-RPC message and the message or the
\* exception is sent; no line is a header and no line is skipped.
LibraryReadLine ==
    /\ stdio.transport = Library
    /\ stdio.pc = "line"
    /\ LineReady
    /\ LET n == LineLength(stdio.stdin, stdio.eof)
           line == SubSeq(stdio.stdin, 1, n)
           rest == [stdio EXCEPT !.stdin = SubSeq(@, n + 1, Len(@))]
       IN  stdio' =
             IF stdio.stdin = <<>> THEN [stdio EXCEPT !.pc = "closed"]
             ELSE [rest EXCEPT !.item = Validated(line), !.pc = "send"]
    /\ UNCHANGED <<storeVars, fetchVars, tool, threads, listing>>

\* stdout_writer of the library's stdio_server: the message as JSON and a
\* line break.
LibraryWrite ==
    /\ stdio.transport = Library
    /\ stdio.write_stream # <<>>
    /\ LET message_json == stdio.write_stream[1]
       IN  stdio' = [stdio EXCEPT
                        !.write_stream = <<>>,
                        !.stdout = Append(@, Written(stdio, message_json,
                                                     NewlineFrame(message_json)))]
    /\ UNCHANGED <<storeVars, fetchVars, tool, threads, listing>>

\* main, lines 630-647: the server runs on the streams of stdio_server().
InitMain ==
    /\ sessions = <<>>
    /\ now = 0
    /\ issued = <<>>
    /\ last = Obs("none")
    /\ call = NoCall
    /\ scraper = NoScraper
    /\ parser = NoParser
    /\ http = <<>>
    /\ sleep_calls = <<>>
    /\ fetch = [w \in Slots |-> NoFetch]
    /\ search = NoSearch
    /\ page = NoPage
    /\ tool = NoTool
    /\ threads = [th \in Threads |-> NoThread]
    /\ listing = NoListing
    /\ \E input \in Inputs, eof \in BOOLEAN : stdio = Opened(stdio_server, input, eof)

NextMain == LibraryReadLine \/ Forward \/ Answer \/ LibraryWrite

SpecMain == InitMain /\ [][NextMain]_vars

\* The first inbound frame is a message without a fault.
FirstIsMessage ==
    /\ stdio.frames # <<>>
    /\ stdio.frames[1].framing \in {"content-length", "newline"}
    /\ stdio.frames[1].fault = "none"

\* The reader waits for input that has not come or is at the end of the
\* input, and nothing read is left to forward, to answer or to write.
Quiet ==
    /\ stdio.pc = "closed" \/ (stdio.pc = "line" /\ ~LineReady)
    /\ stdio.unanswered = 0
    /\ stdio.write_stream = <<>>

\* C31: the server answers in the framing the client used.  When the first
\* inbound frame is a message, every message the server writes is framed as
\* that frame is (a Content-Length header, a blank line and the body, or one
\* line), and once the server has nothing left to do it has written a
\* response.
C31_AnswersInClientFraming ==
    (stdio.transport # "none" /\ FirstIsMessage) =>
        /\ \A k \in 1..Len(stdio.stdout) :
              stdio.stdout[k].text =
                  Framed(stdio.frames[1].framing, stdio.stdout[k].payload)
        /\ Quiet => stdio.stdout # <<>>

====
